---- MODULE Spec2Model ----
(***************************************************************************)
(* State-machine model of velox/type/TimestampConversion.cpp: the calendar *)
(* engine, the date / time / offset parsers, the timestamp composer and    *)
(* the time-zone finalisation step.                                        *)
(*                                                                         *)
(* Every entry point is a pure function of its arguments and of the        *)
(* thread-local "skip error details" flag.  A behaviour is one call: Init  *)
(* picks the entry point's arguments and the flag, the entry point's       *)
(* action computes the result.  Each entry point has its own               *)
(* specification.                                                          *)
(*                                                                         *)
(* Character buffers are sequences of one-character strings.  int64_t      *)
(* values are held as sign + base-1000 limbs (the I64 operators), because  *)
(* the model checker's own integers are 32 bits wide; int32_t values are   *)
(* plain integers.                                                         *)
(***************************************************************************)
EXTENDS Integers, Sequences, FiniteSets, TLC

VARIABLES
  fn,                      \* the entry point that is called
  args,                    \* its arguments
  ret,                     \* [pc |-> "call"] before the call, the outcome after
  threadSkipErrorDetails   \* the thread-local flag read on the error paths

vars == <<fn, args, ret, threadSkipErrorDetails>>

----------------------------------------------------------------------------
(* C++ integer division and remainder truncate toward zero (b > 0 here).   *)

TruncDiv(a, b) == IF a >= 0 THEN a \div b ELSE -((-a) \div b)

TruncRem(a, b) == a - b * TruncDiv(a, b)

abs(a) == IF a < 0 THEN -a ELSE a

----------------------------------------------------------------------------
(* int64_t arithmetic.  A value is [neg, mag]: mag is the magnitude in     *)
(* base 1000, least significant limb first, without leading zero limbs;    *)
(* zero is [neg |-> FALSE, mag |-> <<>>], so equal values are equal        *)
(* records.                                                                *)

RECURSIVE MagStrip(_)
MagStrip(a) ==
  IF a = <<>> THEN <<>>
  ELSE IF a[Len(a)] = 0 THEN MagStrip(SubSeq(a, 1, Len(a) - 1))
  ELSE a

RECURSIVE MagOfNat(_)
MagOfNat(n) == IF n = 0 THEN <<>> ELSE <<n % 1000>> \o MagOfNat(n \div 1000)

RECURSIVE MagAdd(_, _, _)
MagAdd(a, b, carry) ==
  IF a = <<>> /\ b = <<>>
  THEN (IF carry = 0 THEN <<>> ELSE <<carry>>)
  ELSE LET x  == (IF a = <<>> THEN 0 ELSE Head(a))
                 + (IF b = <<>> THEN 0 ELSE Head(b)) + carry
           ta == IF a = <<>> THEN <<>> ELSE Tail(a)
           tb == IF b = <<>> THEN <<>> ELSE Tail(b)
       IN  <<x % 1000>> \o MagAdd(ta, tb, x \div 1000)

(* a - b for magnitudes with a >= b, before stripping. *)
RECURSIVE MagSubRaw(_, _, _)
MagSubRaw(a, b, borrow) ==
  IF a = <<>> THEN <<>>
  ELSE LET x  == Head(a) - (IF b = <<>> THEN 0 ELSE Head(b)) - borrow
           tb == IF b = <<>> THEN <<>> ELSE Tail(b)
       IN  IF x < 0
           THEN <<x + 1000>> \o MagSubRaw(Tail(a), tb, 1)
           ELSE <<x>> \o MagSubRaw(Tail(a), tb, 0)

RECURSIVE MagLessFrom(_, _, _)
MagLessFrom(a, b, i) ==
  IF i = 0 THEN FALSE
  ELSE IF a[i] # b[i] THEN a[i] < b[i]
  ELSE MagLessFrom(a, b, i - 1)

MagLess(a, b) ==
  IF Len(a) # Len(b) THEN Len(a) < Len(b) ELSE MagLessFrom(a, b, Len(a))

RECURSIVE MagMulLimb(_, _, _)
MagMulLimb(a, k, carry) ==
  IF a = <<>> THEN MagOfNat(carry)
  ELSE LET x == Head(a) * k + carry
       IN  <<x % 1000>> \o MagMulLimb(Tail(a), k, x \div 1000)

RECURSIVE MagMul(_, _)
MagMul(a, b) ==
  IF a = <<>> \/ b = <<>> THEN <<>>
  ELSE MagStrip(MagAdd(MagMulLimb(a, Head(b), 0),
                       <<0>> \o MagMul(a, Tail(b)), 0))

(* <<quotient limbs, remainder>> of the magnitude a[1..i] by 0 < k < 2000000, *)
(* by long division from the most significant limb.                        *)
RECURSIVE MagDivMod(_, _, _, _)
MagDivMod(a, k, i, rem) ==
  IF i = 0 THEN <<<<>>, rem>>
  ELSE LET cur  == rem * 1000 + a[i]
           rest == MagDivMod(a, k, i - 1, cur % k)
       IN  <<rest[1] \o <<cur \div k>>, rest[2]>>

I64Make(neg, mag) ==
  LET m == MagStrip(mag) IN [neg |-> (neg /\ m # <<>>), mag |-> m]

I64(n) == I64Make(n < 0, MagOfNat(abs(n)))

I64Neg(a) == I64Make(~a.neg, a.mag)

I64Add(a, b) ==
  IF a.neg = b.neg THEN I64Make(a.neg, MagAdd(a.mag, b.mag, 0))
  ELSE IF MagLess(a.mag, b.mag) THEN I64Make(b.neg, MagSubRaw(b.mag, a.mag, 0))
  ELSE I64Make(a.neg, MagSubRaw(a.mag, b.mag, 0))

I64Sub(a, b) == I64Add(a, I64Neg(b))

I64Mul(a, b) == I64Make(a.neg # b.neg, MagMul(a.mag, b.mag))

I64Less(a, b) ==
  IF a.neg # b.neg THEN a.neg
  ELSE IF a.neg THEN MagLess(b.mag, a.mag)
  ELSE MagLess(a.mag, b.mag)

I64LessEq(a, b) == ~I64Less(b, a)

(* C++ a / k and a % k (truncating) for a plain divisor 0 < k < 2000000. *)
I64DivT(a, k) == I64Make(a.neg, MagDivMod(a.mag, k, Len(a.mag), 0)[1])

I64RemT(a, k) ==
  LET r == MagDivMod(a.mag, k, Len(a.mag), 0)[2] IN IF a.neg THEN -r ELSE r

(* The plain integer of a value that fits 32 bits. *)
RECURSIVE MagToNat(_)
MagToNat(a) == IF a = <<>> THEN 0 ELSE Head(a) + 1000 * MagToNat(Tail(a))

I64ToInt(a) == IF a.neg THEN -MagToNat(a.mag) ELSE MagToNat(a.mag)

(* std::numeric_limits<int32_t>::min() and max() as int64_t values. *)
Int32Max == I64Make(FALSE, <<647, 483, 147, 2>>)

Int32Min == I64Make(TRUE, <<648, 483, 147, 2>>)

(* static_cast<int32_t>(int64_t): the low 32 bits, read as two's complement. *)
(* The two 16-bit halves are taken by floor division by 65536.             *)
I64FloorDivMod(a, k) ==
  LET qr == MagDivMod(a.mag, k, Len(a.mag), 0)
  IN  IF ~a.neg THEN <<I64Make(FALSE, qr[1]), qr[2]>>
      ELSE IF qr[2] = 0 THEN <<I64Make(TRUE, qr[1]), 0>>
      ELSE <<I64Sub(I64Make(TRUE, qr[1]), I64(1)), k - qr[2]>>

NarrowToInt32(a) ==
  LET lo == I64FloorDivMod(a, 65536)
      hi == I64FloorDivMod(lo[1], 65536)
  IN  IF hi[2] >= 32768
      THEN (hi[2] - 65536) * 65536 + lo[2]
      ELSE hi[2] * 65536 + lo[2]

----------------------------------------------------------------------------
(* Constants of TimestampConversion.h and Timestamp.h.                     *)

kMinYear == -292275055

kMaxYear == 292278994

kYearInterval == 400

kDaysPerYearInterval == 146097

kMinsPerHour == 60

kSecsPerMinute == 60

kSecsPerDay == 86400

kMillisPerSecond == 1000

kMillisPerMinute == 60000

kMillisPerHour == 3600000

kMicrosPerMsec == 1000

kMicrosPerSec == 1000000

kNanosPerMicro == 1000

kNanosInSecond == 1000000000

kMaxNanos == 999999999

(* The tables are indexed from 0 in the source and from 1 here. *)
kLeapDays == <<0, 31, 29, 31, 30, 31, 30, 31, 31, 30, 31, 30, 31>>

kNormalDays == <<0, 31, 28, 31, 30, 31, 30, 31, 31, 30, 31, 30, 31>>

kCumulativeDays == <<0, 31, 59, 90, 120, 151, 181, 212, 243, 273, 304, 334, 365>>

kCumulativeLeapDays ==
  <<0, 31, 60, 91, 121, 152, 182, 213, 244, 274, 305, 335, 366>>

kCumulativeYearDays ==
    <<
       0, 365, 730, 1096, 1461, 1826, 2191, 2557, 2922, 3287,
       3652, 4018, 4383, 4748, 5113, 5479, 5844, 6209, 6574, 6940,
       7305, 7670, 8035, 8401, 8766, 9131, 9496, 9862, 10227, 10592,
       10957, 11323, 11688, 12053, 12418, 12784, 13149, 13514, 13879, 14245,
       14610, 14975, 15340, 15706, 16071, 16436, 16801, 17167, 17532, 17897,
       18262, 18628, 18993, 19358, 19723, 20089, 20454, 20819, 21184, 21550,
       21915, 22280, 22645, 23011, 23376, 23741, 24106, 24472, 24837, 25202,
       25567, 25933, 26298, 26663, 27028, 27394, 27759, 28124, 28489, 28855,
       29220, 29585, 29950, 30316, 30681, 31046, 31411, 31777, 32142, 32507,
       32872, 33238, 33603, 33968, 34333, 34699, 35064, 35429, 35794, 36160,
       36525, 36890, 37255, 37621, 37986, 38351, 38716, 39082, 39447, 39812,
       40177, 40543, 40908, 41273, 41638, 42004, 42369, 42734, 43099, 43465,
       43830, 44195, 44560, 44926, 45291, 45656, 46021, 46387, 46752, 47117,
       47482, 47847, 48212, 48577, 48942, 49308, 49673, 50038, 50403, 50769,
       51134, 51499, 51864, 52230, 52595, 52960, 53325, 53691, 54056, 54421,
       54786, 55152, 55517, 55882, 56247, 56613, 56978, 57343, 57708, 58074,
       58439, 58804, 59169, 59535, 59900, 60265, 60630, 60996, 61361, 61726,
       62091, 62457, 62822, 63187, 63552, 63918, 64283, 64648, 65013, 65379,
       65744, 66109, 66474, 66840, 67205, 67570, 67935, 68301, 68666, 69031,
       69396, 69762, 70127, 70492, 70857, 71223, 71588, 71953, 72318, 72684,
       73049, 73414, 73779, 74145, 74510, 74875, 75240, 75606, 75971, 76336,
       76701, 77067, 77432, 77797, 78162, 78528, 78893, 79258, 79623, 79989,
       80354, 80719, 81084, 81450, 81815, 82180, 82545, 82911, 83276, 83641,
       84006, 84371, 84736, 85101, 85466, 85832, 86197, 86562, 86927, 87293,
       87658, 88023, 88388, 88754, 89119, 89484, 89849, 90215, 90580, 90945,
       91310, 91676, 92041, 92406, 92771, 93137, 93502, 93867, 94232, 94598,
       94963, 95328, 95693, 96059, 96424, 96789, 97154, 97520, 97885, 98250,
       98615, 98981, 99346, 99711, 100076, 100442, 100807, 101172, 101537, 101903,
       102268, 102633, 102998, 103364, 103729, 104094, 104459, 104825, 105190, 105555,
       105920, 106286, 106651, 107016, 107381, 107747, 108112, 108477, 108842, 109208,
       109573, 109938, 110303, 110669, 111034, 111399, 111764, 112130, 112495, 112860,
       113225, 113591, 113956, 114321, 114686, 115052, 115417, 115782, 116147, 116513,
       116878, 117243, 117608, 117974, 118339, 118704, 119069, 119435, 119800, 120165,
       120530, 120895, 121260, 121625, 121990, 122356, 122721, 123086, 123451, 123817,
       124182, 124547, 124912, 125278, 125643, 126008, 126373, 126739, 127104, 127469,
       127834, 128200, 128565, 128930, 129295, 129661, 130026, 130391, 130756, 131122,
       131487, 131852, 132217, 132583, 132948, 133313, 133678, 134044, 134409, 134774,
       135139, 135505, 135870, 136235, 136600, 136966, 137331, 137696, 138061, 138427,
       138792, 139157, 139522, 139888, 140253, 140618, 140983, 141349, 141714, 142079,
       142444, 142810, 143175, 143540, 143905, 144271, 144636, 145001, 145366, 145732,
       146097    >>

----------------------------------------------------------------------------
(* Results.  Status::UserError(fmt, args...) keeps its format string and   *)
(* arguments; Status::UserError() has no message.                          *)

UserError(message) == [code |-> "UserError", message |-> message]

Expected(v) == [hasError |-> FALSE, value |-> v]

Unexpected(status) == [hasError |-> TRUE, error |-> status]

----------------------------------------------------------------------------
(* Calendar engine.                                                        *)

isLeapYear(year) ==
  TruncRem(year, 4) = 0 /\ (TruncRem(year, 100) # 0 \/ TruncRem(year, 400) = 0)

(* isValidDate with every February taken as 29 days long. *)
isValidDate_LeapTableOnly(year, month, day) ==
  IF month < 1 \/ month > 12 THEN FALSE
  ELSE IF year < kMinYear \/ year > kMaxYear THEN FALSE
  ELSE IF day < 1 THEN FALSE
  ELSE day <= kLeapDays[month + 1]

isValidDate(year, month, day) ==
  IF month < 1 \/ month > 12 THEN FALSE
  ELSE IF year < kMinYear \/ year > kMaxYear THEN FALSE
  ELSE IF day < 1 THEN FALSE
  ELSE IF isLeapYear(year) THEN day <= kLeapDays[month + 1]
  ELSE day <= kNormalDays[month + 1]

getMaxDayOfMonth(year, month) ==
  IF isLeapYear(year) THEN kLeapDays[month + 1] ELSE kNormalDays[month + 1]

(* daysSinceEpochFromDate with the non-leap month table used for every    *)
(* year.                                                                   *)
daysSinceEpochFromDate_NoLeapMonths(year, month, day) ==
  IF ~isValidDate(year, month, day)
  THEN IF threadSkipErrorDetails
       THEN Unexpected(UserError(<<>>))
       ELSE Unexpected(UserError(<<"Date out of range: {}-{}-{}", year, month, day>>))
  ELSE LET below == IF year < 1970
                    THEN (1970 - year + kYearInterval - 1) \div kYearInterval
                    ELSE 0
           above == IF year >= 2370
                    THEN (year - 2370) \div kYearInterval + 1
                    ELSE 0
           y     == year + below * kYearInterval - above * kYearInterval
           d0    == I64Mul(I64(above - below), I64(kDaysPerYearInterval))
           d1    == I64Add(d0, I64(kCumulativeYearDays[y - 1970 + 1]))
           d2    == I64Add(d1, I64(kCumulativeDays[month - 1 + 1]))
       IN  Expected(I64Add(d2, I64(day - 1)))

(* The two while loops move the year into [1970, 2370) one interval at a   *)
(* time; `below` and `above` are their iteration counts.                   *)
daysSinceEpochFromDate(year, month, day) ==
  IF ~isValidDate(year, month, day)
  THEN IF threadSkipErrorDetails
       THEN Unexpected(UserError(<<>>))
       ELSE Unexpected(UserError(<<"Date out of range: {}-{}-{}", year, month, day>>))
  ELSE LET below == IF year < 1970
                    THEN (1970 - year + kYearInterval - 1) \div kYearInterval
                    ELSE 0
           above == IF year >= 2370
                    THEN (year - 2370) \div kYearInterval + 1
                    ELSE 0
           y     == year + below * kYearInterval - above * kYearInterval
           d0    == I64Mul(I64(above - below), I64(kDaysPerYearInterval))
           d1    == I64Add(d0, I64(kCumulativeYearDays[y - 1970 + 1]))
           d2    == I64Add(d1, I64(IF isLeapYear(y)
                                   THEN kCumulativeLeapDays[month - 1 + 1]
                                   ELSE kCumulativeDays[month - 1 + 1]))
       IN  Expected(I64Add(d2, I64(day - 1)))

(* extractISODayOfTheWeek with one formula for both signs: the remainder   *)
(* of a negative day count is negative or zero in C++.                     *)
extractISODayOfTheWeek_TruncatingModulo(daysSinceEpoch) ==
  I64RemT(I64Add(daysSinceEpoch, I64(3)), 7) + 1

extractISODayOfTheWeek(daysSinceEpoch) ==
  IF I64Less(daysSinceEpoch, I64(0))
  THEN 7 - I64RemT(I64Add(I64Neg(daysSinceEpoch), I64(3)), 7)
  ELSE I64RemT(I64Add(daysSinceEpoch, I64(3)), 7) + 1

isValidWeekDate(weekYear, weekOfYear, dayOfWeek) ==
  IF dayOfWeek < 1 \/ dayOfWeek > 7 THEN FALSE
  ELSE IF weekOfYear < 1 \/ weekOfYear > 52 THEN FALSE
  ELSE IF weekYear < kMinYear \/ weekYear > kMaxYear THEN FALSE
  ELSE TRUE

(* daysSinceEpochFromWeekDate with week 1 taken as the week that contains  *)
(* January 1st.                                                            *)
daysSinceEpochFromWeekDate_JanFirst(weekYear, weekOfYear, dayOfWeek) ==
  IF ~isValidWeekDate(weekYear, weekOfYear, dayOfWeek)
  THEN IF threadSkipErrorDetails
       THEN Unexpected(UserError(<<>>))
       ELSE Unexpected(UserError(<<"Date out of range: {}-{}-{}",
                                   weekYear, weekOfYear, dayOfWeek>>))
  ELSE LET janFirst == daysSinceEpochFromDate(weekYear, 1, 1)
       IN  IF janFirst.hasError THEN janFirst
           ELSE Expected(
                  I64Add(I64Sub(janFirst.value,
                                I64(extractISODayOfTheWeek(janFirst.value) - 1)),
                         I64(7 * (weekOfYear - 1) + dayOfWeek - 1)))

daysSinceEpochFromWeekDate(weekYear, weekOfYear, dayOfWeek) ==
  IF ~isValidWeekDate(weekYear, weekOfYear, dayOfWeek)
  THEN IF threadSkipErrorDetails
       THEN Unexpected(UserError(<<>>))
       ELSE Unexpected(UserError(<<"Date out of range: {}-{}-{}",
                                   weekYear, weekOfYear, dayOfWeek>>))
  ELSE LET janFourth == daysSinceEpochFromDate(weekYear, 1, 4)
       IN  IF janFourth.hasError THEN janFourth
           ELSE LET daysSinceEpochOfJanFourth == janFourth.value
                    firstDayOfWeekYear ==
                      extractISODayOfTheWeek(daysSinceEpochOfJanFourth)
                IN  Expected(
                      I64Add(I64Sub(daysSinceEpochOfJanFourth,
                                    I64(firstDayOfWeekYear - 1)),
                             I64(7 * (weekOfYear - 1) + dayOfWeek - 1)))

(* ceil(x / 7.0) of the source, for an int32_t x. *)
CeilDiv7(x) == -((-x) \div 7)

(* Lines 166-192: firstDayOfWeek is the weekday of the 1st of the month,   *)
(* monthLength the number of its days.                                     *)
isValidWeekOfMonthDateWeeks(weekOfMonth, dayOfWeek, firstDayOfWeek, monthLength) ==
  LET firstWeekLength == 7 - firstDayOfWeek + 1
      actualWeeks == 1 + CeilDiv7(monthLength - firstWeekLength)
      lastWeekLength == TruncRem(monthLength - firstWeekLength, 7)
  IN  IF weekOfMonth < 1 \/ weekOfMonth > actualWeeks THEN FALSE
      ELSE IF weekOfMonth = 1 /\ dayOfWeek < firstDayOfWeek THEN FALSE
      ELSE IF weekOfMonth = actualWeeks /\ lastWeekLength # 0
              /\ dayOfWeek > lastWeekLength
      THEN FALSE
      ELSE TRUE

isValidWeekOfMonthDate(year, month, weekOfMonth, dayOfWeek) ==
  IF year < 1 \/ year > kMaxYear THEN FALSE
  ELSE IF month < 1 \/ month > 12 THEN FALSE
  ELSE IF daysSinceEpochFromDate(year, month, 1).hasError THEN FALSE
  ELSE isValidWeekOfMonthDateWeeks(
         weekOfMonth, dayOfWeek,
         extractISODayOfTheWeek(daysSinceEpochFromDate(year, month, 1).value),
         IF isLeapYear(year) THEN kLeapDays[month + 1]
         ELSE kNormalDays[month + 1])

(* Lines 821-834: the lambda; first is the day count of the 1st of the     *)
(* adjusted month.                                                         *)
daysSinceEpochFromWeekOfMonthDateDays(first, weekOfMonth, dayOfWeek) ==
  IF first.hasError THEN first
  ELSE LET firstDayOfWeek == extractISODayOfTheWeek(first.value)
           days == IF dayOfWeek < 1 THEN 7 - TruncRem(abs(dayOfWeek - 1), 7)
                   ELSE IF dayOfWeek > 7 THEN TruncRem(dayOfWeek - 1, 7)
                   ELSE TruncRem(dayOfWeek, 7)
       IN  Expected(
             I64Sub(I64Add(I64Add(I64Sub(first.value, I64(firstDayOfWeek - 1)),
                                  I64(7 * (weekOfMonth - 1))),
                           I64(days)),
                    I64(1)))

daysSinceEpochFromWeekOfMonthDate(year, month, weekOfMonth, dayOfWeek, lenient) ==
  IF ~lenient /\ ~isValidWeekOfMonthDate(year, month, weekOfMonth, dayOfWeek)
  THEN IF threadSkipErrorDetails
       THEN Unexpected(UserError(<<>>))
       ELSE Unexpected(UserError(<<"Date out of range: {}-{}-{}-{}",
                                   year, month, weekOfMonth, dayOfWeek>>))
  ELSE IF month < 1
  THEN daysSinceEpochFromWeekOfMonthDateDays(
         daysSinceEpochFromDate(year + (TruncDiv(month, 12) - 1),
                                12 - TruncRem(abs(month), 12), 1),
         weekOfMonth, dayOfWeek)
  ELSE IF month > 12
  THEN daysSinceEpochFromWeekOfMonthDateDays(
         daysSinceEpochFromDate(year + TruncDiv(month - 1, 12),
                                TruncRem(month - 1, 12) + 1, 1),
         weekOfMonth, dayOfWeek)
  ELSE daysSinceEpochFromWeekOfMonthDateDays(
         daysSinceEpochFromDate(year, month, 1), weekOfMonth, dayOfWeek)

validDate(daysSinceEpoch) ==
  I64LessEq(Int32Min, daysSinceEpoch) /\ I64LessEq(daysSinceEpoch, Int32Max)

----------------------------------------------------------------------------
(* Characters are their ASCII codes; a buffer is a sequence of codes and   *)
(* buf[pos] of the source is At(buf, pos).  Ord gives the code of the      *)
(* characters the inputs are written with.                                 *)

Ord(c) ==
  CASE c = "\t" -> 9   [] c = "\n" -> 10  [] c = "\f" -> 12  [] c = "\r" -> 13
    [] c = " " -> 32   [] c = "(" -> 40   [] c = ")" -> 41   [] c = "+" -> 43
    [] c = "," -> 44   [] c = "-" -> 45   [] c = "." -> 46   [] c = "/" -> 47
    [] c = "0" -> 48   [] c = "1" -> 49   [] c = "2" -> 50   [] c = "3" -> 51
    [] c = "4" -> 52   [] c = "5" -> 53   [] c = "6" -> 54   [] c = "7" -> 55
    [] c = "8" -> 56   [] c = "9" -> 57   [] c = ":" -> 58   [] c = "A" -> 65
    [] c = "B" -> 66   [] c = "C" -> 67   [] c = "T" -> 84   [] c = "U" -> 85
    [] c = "Z" -> 90   [] c = "\\" -> 92  [] c = "x" -> 120

Bytes(s) == [i \in 1..Len(s) |-> Ord(s[i])]

At(buf, pos) == buf[pos + 1]

characterIsSpace(c) ==
  c = Ord(" ") \/ c = Ord("\t") \/ c = Ord("\n") \/ c = 11 \/ c = Ord("\f")
    \/ c = Ord("\r")

characterIsDigit(c) == c >= Ord("0") /\ c <= Ord("9")

(* [ok, pos, result]: result is meaningful when ok. *)
parseDoubleDigit(buf, len, pos) ==
  IF pos < len /\ characterIsDigit(At(buf, pos))
  THEN LET first == At(buf, pos) - Ord("0")
       IN  IF pos + 1 < len /\ characterIsDigit(At(buf, pos + 1))
           THEN [ok |-> TRUE, pos |-> pos + 2,
                 result |-> (At(buf, pos + 1) - Ord("0")) + first * 10]
           ELSE [ok |-> TRUE, pos |-> pos + 1, result |-> first]
  ELSE [ok |-> FALSE, pos |-> pos, result |-> 0]

RECURSIVE skipSpaces(_, _, _)
skipSpaces(buf, len, pos) ==
  IF pos < len /\ characterIsSpace(At(buf, pos))
  THEN skipSpaces(buf, len, pos + 1)
  ELSE pos

----------------------------------------------------------------------------
(* Checked int32_t arithmetic (CheckedArithmetic.h): the exact result, or  *)
(* the overflow signal, which is a thrown user error.                      *)

Thrown(what) == [thrown |-> what]

IsThrown(r) == "thrown" \in DOMAIN r

(* The exact result p as an int32_t, or the overflow signal. *)
checkedInt32(p) ==
  IF I64LessEq(Int32Min, p) /\ I64LessEq(p, Int32Max)
  THEN [value |-> I64ToInt(p)]
  ELSE Thrown("integer overflow")

checkedMultiply(a, b) == checkedInt32(I64Mul(I64(a), I64(b)))

checkedPlus(a, b) == checkedInt32(I64Add(I64(a), I64(b)))

checkedNegate(a) == checkedInt32(I64Neg(I64(a)))

----------------------------------------------------------------------------
(* Date-string parser.  tryParseDateString returns [ok, pos,               *)
(* daysSinceEpoch], daysSinceEpoch being set when ok, or Thrown(..) when   *)
(* the checked arithmetic of the year throws.  The operators that follow   *)
(* it are its successive steps, each taking what the steps before it have  *)
(* computed.                                                               *)

DateParsed(pos, daysSinceEpoch) ==
  [ok |-> TRUE, pos |-> pos, daysSinceEpoch |-> daysSinceEpoch]

DateNotParsed(pos) == [ok |-> FALSE, pos |-> pos, daysSinceEpoch |-> I64(0)]

(* The year loop: [pos, year], or Thrown.  On `break` pos is not advanced. *)
RECURSIVE parseYear(_, _, _, _)
RECURSIVE parseYearPlus(_, _, _, _)
RECURSIVE parseYearNext(_, _, _, _)
parseYearNext(buf, len, pos, next) ==
  IF IsThrown(next) THEN next
  ELSE IF next.value > kMaxYear THEN [pos |-> pos, year |-> next.value]
  ELSE parseYear(buf, len, pos + 1, next.value)

parseYearPlus(buf, len, pos, times10) ==
  IF IsThrown(times10) THEN times10
  ELSE parseYearNext(buf, len, pos,
                     checkedPlus(At(buf, pos) - Ord("0"), times10.value))

parseYear(buf, len, pos, year) ==
  IF pos < len /\ characterIsDigit(At(buf, pos))
  THEN parseYearPlus(buf, len, pos, checkedMultiply(year, 10))
  ELSE [pos |-> pos, year |-> year]

(* The day count `expected` checked with validDate. *)
validDaysSinceEpoch(pos, expected) ==
  IF expected.hasError THEN DateNotParsed(pos)
  ELSE IF validDate(expected.value) THEN DateParsed(pos, expected.value)
  ELSE DateNotParsed(pos)

(* Lines 337-352: the Presto cast and ISO 8601 dialects behind the day. *)
tryParseDateStringCast(buf, len, mode, pos, expected) ==
  LET p == IF mode = "kPrestoCast" THEN skipSpaces(buf, len, pos) ELSE pos
  IN  IF expected.hasError THEN DateNotParsed(pos)
      ELSE IF p = len THEN validDaysSinceEpoch(p, expected)
      ELSE DateNotParsed(p)

(* Lines 356-375: the Spark cast dialect behind the day. *)
tryParseDateStringSpark(buf, len, pos, expected) ==
  IF expected.hasError THEN DateNotParsed(pos)
  ELSE IF ~validDate(expected.value) THEN DateNotParsed(pos)
  ELSE IF pos = len THEN DateParsed(pos, expected.value)
  ELSE IF At(buf, pos) = Ord("T") \/ At(buf, pos) = Ord(" ")
  THEN DateParsed(pos, expected.value)
  ELSE DateNotParsed(pos)

(* Lines 391-410: the strict and non-strict dialects behind the BC marker; *)
(* pos is behind the spaces the strict dialect skips.                      *)
tryParseDateStringTrailing(buf, len, mode, pos, expected) ==
  IF (mode = "kStrict" \/ mode = "kIso8601") /\ pos < len
  THEN DateNotParsed(pos)
  ELSE IF ~(mode = "kStrict" \/ mode = "kIso8601")
          /\ pos < len /\ characterIsDigit(At(buf, pos))
  THEN DateNotParsed(pos)
  ELSE IF expected.hasError THEN DateNotParsed(pos)
  ELSE DateParsed(pos, expected.value)

(* Lines 377-389: the BC marker; bc tells whether it stands at pos. *)
tryParseDateStringBC(buf, len, mode, pos, year0, month, day, yearneg, bc) ==
  IF bc /\ (yearneg \/ year0 = 0) THEN DateNotParsed(pos)
  ELSE IF bc /\ -year0 + 1 < kMinYear THEN DateNotParsed(pos + 5)
  ELSE tryParseDateStringTrailing(
         buf, len, mode,
         IF mode = "kStrict" \/ mode = "kIso8601"
         THEN skipSpaces(buf, len, IF bc THEN pos + 5 ELSE pos)
         ELSE IF bc THEN pos + 5 ELSE pos,
         daysSinceEpochFromDate(IF bc THEN -year0 + 1 ELSE year0, month, day))

(* Lines 337-411: after the day has been parsed, pos is behind it. *)
tryParseDateStringAfterDay(buf, len, mode, pos, year0, month, day, yearneg) ==
  IF mode = "kPrestoCast" \/ mode = "kIso8601"
  THEN tryParseDateStringCast(buf, len, mode, pos,
                              daysSinceEpochFromDate(year0, month, day))
  ELSE IF mode = "kSparkCast"
  THEN tryParseDateStringSpark(buf, len, pos,
                               daysSinceEpochFromDate(year0, month, day))
  ELSE tryParseDateStringBC(
         buf, len, mode, pos, year0, month, day, yearneg,
         /\ len - pos >= 5
         /\ characterIsSpace(At(buf, pos))
         /\ At(buf, pos + 1) = Ord("(")
         /\ At(buf, pos + 2) = Ord("B")
         /\ At(buf, pos + 3) = Ord("C")
         /\ At(buf, pos + 4) = Ord(")"))

(* Lines 332-335: dd is the day as parseDoubleDigit returned it. *)
tryParseDateStringDay(buf, len, mode, pos, year, month, yearneg, dd) ==
  IF ~dd.ok THEN DateNotParsed(pos)
  ELSE tryParseDateStringAfterDay(
         buf, len, mode, dd.pos, year, month, dd.result, yearneg)

(* tryParseDateStringMonth with the year-month early return left out: a    *)
(* text that stops behind the month is then rejected like a missing day.   *)
tryParseDateStringMonth_NoPartialDate(buf, len, mode, pos, sep, year, yearneg, mon) ==
  IF ~mon.ok THEN DateNotParsed(pos)
  ELSE IF mon.pos >= len THEN DateNotParsed(mon.pos)
  ELSE IF At(buf, mon.pos) # sep THEN DateNotParsed(mon.pos + 1)
  ELSE IF mon.pos + 1 >= len THEN DateNotParsed(mon.pos + 1)
  ELSE tryParseDateStringDay(
         buf, len, mode, mon.pos + 1, year, mon.result, yearneg,
         parseDoubleDigit(buf, len, mon.pos + 1))

(* Lines 304-330: mon is the month as parseDoubleDigit returned it, sep    *)
(* the first separator.                                                    *)
tryParseDateStringMonth(buf, len, mode, pos, sep, year, yearneg, mon) ==
  IF ~mon.ok THEN DateNotParsed(pos)
  ELSE IF (mode = "kSparkCast" \/ mode = "kIso8601")
          /\ (mon.pos = len \/ At(buf, mon.pos) = Ord("T"))
  THEN validDaysSinceEpoch(mon.pos,
                           daysSinceEpochFromDate(year, mon.result, 1))
  ELSE IF mon.pos >= len THEN DateNotParsed(mon.pos)
  ELSE IF At(buf, mon.pos) # sep THEN DateNotParsed(mon.pos + 1)
  ELSE IF mon.pos + 1 >= len THEN DateNotParsed(mon.pos + 1)
  ELSE tryParseDateStringDay(
         buf, len, mode, mon.pos + 1, year, mon.result, yearneg,
         parseDoubleDigit(buf, len, mon.pos + 1))

(* Lines 274-335: after the year; pos is behind its last digit. *)
tryParseDateStringAfterYear(buf, len, mode, pos, year, yearneg) ==
  IF (mode = "kSparkCast" \/ mode = "kIso8601")
     /\ (pos = len \/ At(buf, pos) = Ord("T"))
  THEN validDaysSinceEpoch(pos, daysSinceEpochFromDate(year, 1, 1))
  ELSE IF pos >= len THEN DateNotParsed(pos)
  ELSE LET sep == At(buf, pos)
           sepOk == IF mode = "kPrestoCast" \/ mode = "kSparkCast"
                       \/ mode = "kIso8601"
                    THEN sep = Ord("-")
                    ELSE sep = Ord(" ") \/ sep = Ord("-") \/ sep = Ord("/")
                         \/ sep = Ord("\\")
       IN  IF ~sepOk THEN DateNotParsed(pos + 1)
           ELSE tryParseDateStringMonth(
                  buf, len, mode, pos + 1, sep, year, yearneg,
                  parseDoubleDigit(buf, len, pos + 1))

(* Lines 267-272: the year of a date with a '-' sign, negated. *)
tryParseDateStringNegated(buf, len, mode, pos, negated) ==
  IF IsThrown(negated) THEN negated
  ELSE IF negated.value < kMinYear THEN DateNotParsed(pos)
  ELSE tryParseDateStringAfterYear(buf, len, mode, pos, negated.value, TRUE)

(* Lines 258-272: y is what the year loop returned. *)
tryParseDateStringYear(buf, len, mode, sign, yearneg, y) ==
  IF IsThrown(y) THEN y
  ELSE IF mode = "kSparkCast" /\ y.pos - (IF sign THEN 1 ELSE 0) < 4
  THEN DateNotParsed(y.pos)
  ELSE IF yearneg
  THEN tryParseDateStringNegated(buf, len, mode, y.pos, checkedNegate(y.year))
  ELSE tryParseDateStringAfterYear(buf, len, mode, y.pos, y.year, FALSE)

(* Lines 229-256: the sign and the first digit; pos is behind the leading  *)
(* spaces.                                                                 *)
tryParseDateStringSign(buf, len, mode, pos) ==
  IF pos >= len THEN DateNotParsed(pos)
  ELSE LET yearneg == At(buf, pos) = Ord("-")
           sign    == yearneg \/ At(buf, pos) = Ord("+")
           p1      == IF sign THEN pos + 1 ELSE pos
       IN  IF p1 >= len THEN DateNotParsed(p1)
           ELSE IF ~characterIsDigit(At(buf, p1)) THEN DateNotParsed(p1)
           ELSE tryParseDateStringYear(buf, len, mode, sign, yearneg,
                                       parseYear(buf, len, p1, 0))

tryParseDateString(buf, len, mode) ==
  IF len = 0 THEN DateNotParsed(0)
  ELSE tryParseDateStringSign(
         buf, len, mode,
         IF mode # "kIso8601" THEN skipSpaces(buf, len, 0) ELSE 0)

(* Lines 856-888: parsed is what tryParseDateString returned.  The         *)
(* conversion of the parsed int64_t day count to the Expected<int32_t>     *)
(* that is returned keeps its low 32 bits.  A rejected input takes the     *)
(* switch over the mode, whose default case is VELOX_UNREACHABLE().        *)
fromDateStringParsed(str, len, mode, parsed) ==
  IF IsThrown(parsed) THEN parsed
  ELSE IF ~parsed.ok
  THEN IF threadSkipErrorDetails THEN Unexpected(UserError(<<>>))
       ELSE IF mode = "kPrestoCast"
       THEN Unexpected(UserError(
              <<"Unable to parse date value: \"{}\". Valid date string pattern is (YYYY-MM-DD), and can be prefixed with [+-]",
                str>>))
       ELSE IF mode = "kSparkCast"
       THEN Unexpected(UserError(
              <<"Unable to parse date value: \"{}\". Valid date string patterns include ([y]y*, [y]y*-[m]m*, [y]y*-[m]m*-[d]d*, [y]y*-[m]m*-[d]d* *, [y]y*-[m]m*-[d]d*T*), and any pattern prefixed with [+-]",
                str>>))
       ELSE IF mode = "kIso8601"
       THEN Unexpected(UserError(
              <<"Unable to parse date value: \"{}\". Valid date string patterns include ([y]y*, [y]y*-[m]m*, [y]y*-[m]m*-[d]d*, [y]y*-[m]m*-[d]d* *), and any pattern prefixed with [+-]",
                str>>))
       ELSE Thrown("VELOX_UNREACHABLE")
  ELSE Expected(NarrowToInt32(parsed.daysSinceEpoch))

fromDateString(str, len, mode) ==
  fromDateStringParsed(str, len, mode, tryParseDateString(str, len, mode))

----------------------------------------------------------------------------
(* Time of day, timestamps.                                                *)

fromTime(hour, minute, second, microseconds) ==
  LET hours   == I64(hour)
      minutes == I64Add(I64Mul(hours, I64(kMinsPerHour)), I64(minute))
      seconds == I64Add(I64Mul(minutes, I64(kSecsPerMinute)), I64(second))
  IN  I64Add(I64Mul(seconds, I64(kMicrosPerSec)), I64(microseconds))

Timestamp(seconds, nanos) == [seconds |-> seconds, nanos |-> nanos]

fromDatetime(daysSinceEpoch, microsSinceMidnight) ==
  LET secondsSinceEpoch ==
        I64Add(I64Mul(daysSinceEpoch, I64(kSecsPerDay)),
               I64DivT(microsSinceMidnight, kMicrosPerSec))
  IN  Timestamp(secondsSinceEpoch,
                I64RemT(microsSinceMidnight, kMicrosPerSec) * kNanosPerMicro)

parseTimeSeparator(buf, pos, parseMode) ==
  IF parseMode = "kIso8601"
  THEN (IF At(buf, pos) = Ord("T") THEN pos + 1 ELSE pos)
  ELSE IF parseMode = "kPrestoCast"
  THEN (IF At(buf, pos) = Ord(" ") THEN pos + 1 ELSE pos)
  ELSE IF At(buf, pos) = Ord(" ") \/ At(buf, pos) = Ord("T") THEN pos + 1
  ELSE pos

(* The microseconds loop: [pos, micros]; mult is divided by 10 per digit. *)
RECURSIVE parseMicros(_, _, _, _, _)
parseMicros(buf, len, pos, mult, micros) ==
  IF pos < len /\ characterIsDigit(At(buf, pos))
  THEN parseMicros(buf, len, pos + 1, TruncDiv(mult, 10),
                   IF mult > 0 THEN micros + (At(buf, pos) - Ord("0")) * mult
                   ELSE micros)
  ELSE [pos |-> pos, micros |-> micros]

TimeParsed(pos, result) == [ok |-> TRUE, pos |-> pos, result |-> result]

TimeNotParsed(pos) == [ok |-> FALSE, pos |-> pos, result |-> I64(0)]

(* Lines 526-529: us is what the microseconds loop returned. *)
tryParseTimeStringMicros(hour, min, sec, us) ==
  TimeParsed(us.pos, fromTime(hour, min, sec, us.micros))

(* Lines 496-524: ss is the seconds as parseDoubleDigit returned them, pos *)
(* the position they were read at.                                         *)
tryParseTimeStringSeconds(buf, len, parseMode, pos, hour, min, ss) ==
  IF ~ss.ok THEN TimeNotParsed(pos)
  ELSE IF ss.result < 0 \/ ss.result > 60 THEN TimeNotParsed(ss.pos)
  ELSE IF ss.pos < len
  THEN LET p == IF At(buf, ss.pos) = Ord(".") THEN ss.pos + 1
                ELSE IF parseMode = "kIso8601" /\ At(buf, ss.pos) = Ord(",")
                THEN ss.pos + 1
                ELSE ss.pos
       IN  IF p >= len THEN TimeNotParsed(p)
           ELSE tryParseTimeStringMicros(
                  hour, min, ss.result, parseMicros(buf, len, p, 100000, 0))
  ELSE TimeParsed(ss.pos, fromTime(hour, min, ss.result, 0))

(* Lines 488-529: mm is the minutes as parseDoubleDigit returned them, pos *)
(* the position they were read at.                                         *)
tryParseTimeStringMinutes(buf, len, parseMode, pos, hour, mm) ==
  IF ~mm.ok THEN TimeNotParsed(pos)
  ELSE IF mm.result < 0 \/ mm.result >= 60 THEN TimeNotParsed(mm.pos)
  ELSE IF mm.pos < len /\ At(buf, mm.pos) = Ord(":")
  THEN tryParseTimeStringSeconds(
         buf, len, parseMode, mm.pos + 1, hour, mm.result,
         parseDoubleDigit(buf, len, mm.pos + 1))
  ELSE TimeParsed(mm.pos, fromTime(hour, mm.result, 0, 0))

(* Lines 488-529: after "hh:", pos is behind the separator. *)
tryParseTimeStringAfterHour(buf, len, parseMode, pos, hour) ==
  tryParseTimeStringMinutes(buf, len, parseMode, pos, hour,
                            parseDoubleDigit(buf, len, pos))

(* Lines 461-486: hh is the hours as parseDoubleDigit returned them, pos   *)
(* the position they were read at.                                         *)
tryParseTimeStringHours(buf, len, parseMode, pos, hh) ==
  IF ~hh.ok THEN TimeNotParsed(pos)
  ELSE IF hh.result < 0 \/ hh.result >= 24 THEN TimeNotParsed(hh.pos)
  ELSE IF hh.pos >= len \/ At(buf, hh.pos) # Ord(":")
  THEN (IF parseMode = "kIso8601"
        THEN TimeParsed(hh.pos, fromTime(hh.result, 0, 0, 0))
        ELSE TimeNotParsed(hh.pos))
  ELSE tryParseTimeStringAfterHour(buf, len, parseMode, hh.pos + 1, hh.result)

(* Lines 449-463: pos is behind the leading spaces. *)
tryParseTimeStringDigits(buf, len, parseMode, pos) ==
  IF pos >= len THEN TimeNotParsed(pos)
  ELSE IF ~characterIsDigit(At(buf, pos)) THEN TimeNotParsed(pos)
  ELSE tryParseTimeStringHours(buf, len, parseMode, pos,
                               parseDoubleDigit(buf, len, pos))

tryParseTimeString(buf, len, parseMode) ==
  IF len = 0 THEN TimeNotParsed(0)
  ELSE tryParseTimeStringDigits(
         buf, len, parseMode,
         IF parseMode # "kIso8601" THEN skipSpaces(buf, len, 0) ELSE 0)

----------------------------------------------------------------------------
(* Signed offset: [ok, pos, result] with result in milliseconds.           *)

(* The milliseconds loop: [pos, millis]; it stops when mult reaches 0. *)
RECURSIVE parseMillis(_, _, _, _, _)
parseMillis(buf, len, pos, mult, millis) ==
  IF pos < len /\ mult > 0 /\ characterIsDigit(At(buf, pos))
  THEN parseMillis(buf, len, pos + 1, TruncDiv(mult, 10),
                   millis + (At(buf, pos) - Ord("0")) * mult)
  ELSE [pos |-> pos, millis |-> millis]

OffsetResult(ok, pos, result) == [ok |-> ok, pos |-> pos, result |-> result]

(* tryParsePrestoTimeOffsetStringMillis without the test that the whole    *)
(* span was consumed.                                                      *)
tryParsePrestoTimeOffsetStringMillis_NoLengthTest(len, result, positive, ms) ==
  OffsetResult(TRUE, ms.pos,
               (result + ms.millis) * (IF positive THEN 1 ELSE -1))

(* Lines 632-635: ms is what the milliseconds loop returned. *)
tryParsePrestoTimeOffsetStringMillis(len, result, positive, ms) ==
  OffsetResult(ms.pos = len, ms.pos,
               (result + ms.millis) * (IF positive THEN 1 ELSE -1))

(* Lines 600-635: ss is the seconds as parseDoubleDigit returned them, pos *)
(* the position they were read at, result holds hours and minutes.         *)
tryParsePrestoTimeOffsetStringSecond(buf, len, pos, result, positive, ss) ==
  IF ~ss.ok THEN OffsetResult(FALSE, pos, result)
  ELSE IF ss.result < 0 \/ ss.result >= 60
  THEN OffsetResult(FALSE, ss.pos, result)
  ELSE IF ss.pos >= len
          \/ (At(buf, ss.pos) # Ord(".") /\ At(buf, ss.pos) # Ord(",")
              /\ ~characterIsDigit(At(buf, ss.pos)))
  THEN OffsetResult(ss.pos = len, ss.pos,
                    (result + ss.result * kMillisPerSecond)
                      * (IF positive THEN 1 ELSE -1))
  ELSE LET p == IF At(buf, ss.pos) = Ord(".") \/ At(buf, ss.pos) = Ord(",")
                THEN ss.pos + 1 ELSE ss.pos
       IN  IF p >= len
           THEN OffsetResult(FALSE, p, result + ss.result * kMillisPerSecond)
           ELSE tryParsePrestoTimeOffsetStringMillis(
                  len, result + ss.result * kMillisPerSecond, positive,
                  parseMillis(buf, len, p, 100, 0))

(* Lines 600-635: the seconds and the fraction; pos is behind the minutes  *)
(* and their optional separator, result holds hours and minutes.           *)
tryParsePrestoTimeOffsetStringSeconds(buf, len, pos, result, positive) ==
  tryParsePrestoTimeOffsetStringSecond(buf, len, pos, result, positive,
                                       parseDoubleDigit(buf, len, pos))

(* Lines 578-598: mm is the minutes as parseDoubleDigit returned them, pos *)
(* the position they were read at, result holds the hours.                 *)
tryParsePrestoTimeOffsetStringMinutes(buf, len, pos, result, positive, mm) ==
  IF ~mm.ok THEN OffsetResult(FALSE, pos, result)
  ELSE IF mm.result < 0 \/ mm.result >= 60
  THEN OffsetResult(FALSE, mm.pos, result)
  ELSE IF mm.pos >= len
          \/ (At(buf, mm.pos) # Ord(":")
              /\ ~characterIsDigit(At(buf, mm.pos)))
  THEN OffsetResult(mm.pos = len, mm.pos,
                    (result + mm.result * kMillisPerMinute)
                      * (IF positive THEN 1 ELSE -1))
  ELSE tryParsePrestoTimeOffsetStringSeconds(
         buf, len,
         IF At(buf, mm.pos) = Ord(":") THEN mm.pos + 1 ELSE mm.pos,
         result + mm.result * kMillisPerMinute, positive)

(* Lines 558-583: hh is the hours as parseDoubleDigit returned them. *)
tryParsePrestoTimeOffsetStringHours(buf, len, positive, hh) ==
  IF ~hh.ok THEN OffsetResult(FALSE, 1, 0)
  ELSE IF hh.result < 0 \/ hh.result >= 24 THEN OffsetResult(FALSE, hh.pos, 0)
  ELSE IF hh.pos >= len
          \/ (At(buf, hh.pos) # Ord(":")
              /\ ~characterIsDigit(At(buf, hh.pos)))
  THEN OffsetResult(hh.pos = len, hh.pos,
                    hh.result * kMillisPerHour * (IF positive THEN 1 ELSE -1))
  ELSE tryParsePrestoTimeOffsetStringMinutes(
         buf, len,
         IF At(buf, hh.pos) = Ord(":") THEN hh.pos + 1 ELSE hh.pos,
         hh.result * kMillisPerHour, positive,
         parseDoubleDigit(
           buf, len,
           IF At(buf, hh.pos) = Ord(":") THEN hh.pos + 1 ELSE hh.pos))

tryParsePrestoTimeOffsetString(buf, len) ==
  IF len = 0 THEN OffsetResult(FALSE, 0, 0)
  ELSE IF At(buf, 0) # Ord("+") /\ At(buf, 0) # Ord("-")
  THEN OffsetResult(FALSE, 0, 0)
  ELSE IF 1 >= len THEN OffsetResult(FALSE, 1, 0)
  ELSE tryParsePrestoTimeOffsetStringHours(
         buf, len, At(buf, 0) = Ord("+"), parseDoubleDigit(buf, len, 1))

----------------------------------------------------------------------------
(* Timestamp composer: [ok, pos, result], result being set when ok, or     *)
(* Thrown(..) from the date parser.                                        *)

TimestampParsed(pos, result) == [ok |-> TRUE, pos |-> pos, result |-> result]

TimestampNotParsed(pos) ==
  [ok |-> FALSE, pos |-> pos, result |-> Timestamp(I64(0), 0)]

Drop(buf, n) == SubSeq(buf, n + 1, Len(buf))

(* Lines 687-702: time is what tryParseTimeString returned for the text at *)
(* pos, which is behind the separator.                                     *)
tryParseTimestampStringTime(pos, daysSinceEpoch, time) ==
  IF ~time.ok THEN TimestampParsed(pos, fromDatetime(daysSinceEpoch, I64(0)))
  ELSE TimestampParsed(pos + time.pos,
                       fromDatetime(daysSinceEpoch, time.result))

(* Lines 684-702: pos is behind the separator. *)
tryParseTimestampStringAfterSeparator(buf, len, pos, daysSinceEpoch, parseMode) ==
  tryParseTimestampStringTime(
    pos, daysSinceEpoch, tryParseTimeString(Drop(buf, pos), len - pos, parseMode))

(* Lines 681-702: after the date; pos is where the date parser stopped. *)
tryParseTimestampStringAfterDate(buf, len, pos, daysSinceEpoch, parseMode) ==
  IF pos = len THEN TimestampParsed(pos, fromDatetime(daysSinceEpoch, I64(0)))
  ELSE tryParseTimestampStringAfterSeparator(
         buf, len, parseTimeSeparator(buf, pos, parseMode), daysSinceEpoch,
         parseMode)

(* Lines 668-679: date is what tryParseDateString returned. *)
tryParseTimestampStringDate(buf, len, parseMode, date) ==
  IF IsThrown(date) THEN date
  ELSE IF ~date.ok THEN TimestampNotParsed(date.pos)
  ELSE tryParseTimestampStringAfterDate(
         buf, len, date.pos, date.daysSinceEpoch, parseMode)

tryParseTimestampString(buf, len, pos, parseMode) ==
  IF parseMode = "kIso8601" /\ skipSpaces(buf, len, pos) > pos
  THEN TimestampNotParsed(skipSpaces(buf, len, pos))
  ELSE IF parseMode = "kIso8601" /\ pos < len /\ At(buf, pos) = Ord("T")
  THEN IF pos = len - 1 THEN TimestampNotParsed(pos)
       ELSE tryParseTimestampStringAfterDate(buf, len, pos, I64(0), parseMode)
  ELSE tryParseTimestampStringDate(
         buf, len, parseMode,
         tryParseDateString(
           buf, len,
           IF parseMode = "kIso8601" \/ parseMode = "kSparkCast"
           THEN "kSparkCast" ELSE "kNonStrict"))

parserError(str, len) ==
  IF threadSkipErrorDetails THEN UserError(<<>>)
  ELSE UserError(<<"Unable to parse timestamp value: \"{}\", expected format is (YYYY-MM-DD HH:MM:SS[.MS])",
                   str>>)

(* fromTimestampString without the test for unconsumed input. *)
fromTimestampStringParsed_NoRemainderTest(str, len, parsed) ==
  IF IsThrown(parsed) THEN parsed
  ELSE IF ~parsed.ok THEN Unexpected(parserError(str, len))
  ELSE LET pos == skipSpaces(str, len, parsed.pos)
       IN  IF pos # len THEN Thrown("VELOX_CHECK_EQ(pos, len)")
           ELSE Expected(parsed.result)

(* Lines 955-965: parsed is what tryParseTimestampString returned. *)
fromTimestampStringParsed(str, len, parsed) ==
  IF IsThrown(parsed) THEN parsed
  ELSE IF ~parsed.ok THEN Unexpected(parserError(str, len))
  ELSE LET pos == skipSpaces(str, len, parsed.pos)
       IN  IF pos < len THEN Unexpected(parserError(str, len))
           ELSE IF pos # len THEN Thrown("VELOX_CHECK_EQ(pos, len)")
           ELSE Expected(parsed.result)

fromTimestampString(str, len, parseMode) ==
  fromTimestampStringParsed(
    str, len, tryParseTimestampString(str, len, 0, parseMode))

----------------------------------------------------------------------------
(* Time zones (tz/TimeZoneMap.h, Timestamp::toGMT): a registry of three    *)
(* zones with fixed offsets from UTC, in seconds.  "nullptr" is no zone.   *)

locateZone(timeZoneName) ==
  IF timeZoneName = Bytes(<<"Z">>) \/ timeZoneName = Bytes(<<"U", "T", "C">>)
  THEN "UTC"
  ELSE IF timeZoneName = Bytes(<<"+", "0", "1", ":", "0", "0">>) THEN "+01:00"
  ELSE IF timeZoneName = Bytes(<<"-", "0", "8", ":", "0", "0">>) THEN "-08:00"
  ELSE "nullptr"

zoneOffsetSeconds(timeZone) ==
  IF timeZone = "+01:00" THEN 3600
  ELSE IF timeZone = "-08:00" THEN -28800
  ELSE 0

toGMT(timestamp, timeZone) ==
  Timestamp(I64Sub(timestamp.seconds, I64(zoneOffsetSeconds(timeZone))),
            timestamp.nanos)

----------------------------------------------------------------------------
(* Timestamp with time zone.                                               *)

nullopt == [has_value |-> FALSE, value |-> 0]

optional(v) == [has_value |-> TRUE, value |-> v]

ParsedTimestampWithTimeZone(timestamp, timeZone, offsetMillis) ==
  [timestamp |-> timestamp, timeZone |-> timeZone, offsetMillis |-> offsetMillis]

(* The loop of lines 998-1000: the first position at or after pos that     *)
(* holds a whitespace character, or len.                                   *)
RECURSIVE skipToSpace(_, _, _)
skipToSpace(str, len, pos) ==
  IF pos < len /\ ~characterIsSpace(At(str, pos))
  THEN skipToSpace(str, len, pos + 1)
  ELSE pos

(* The zone step with the offset grammar tried whatever the zone lookup    *)
(* returned.                                                               *)
fromTimestampWithTimezoneStringToken_OffsetAlways(str, len, parseMode, timezonePos, timeZoneName, resultTimestamp, timeZone, offset) ==
  LET endPos == IF parseMode # "kIso8601"
                THEN skipSpaces(str, len, timezonePos)
                ELSE timezonePos
  IN  IF timeZone = "nullptr" /\ ~(parseMode = "kPrestoCast" /\ offset.ok)
      THEN Unexpected(UserError(
             <<"Unknown timezone value: \"{}\"", timeZoneName>>))
      ELSE IF endPos < len THEN Unexpected(parserError(str, len))
      ELSE Expected(ParsedTimestampWithTimeZone(
             resultTimestamp, timeZone,
             IF parseMode = "kPrestoCast" /\ offset.ok
             THEN optional(offset.result)
             ELSE nullopt))

(* The zone step with the offset grammar tried before the zone lookup. *)
fromTimestampWithTimezoneStringToken_OffsetFirst(str, len, parseMode, timezonePos, timeZoneName, resultTimestamp, timeZone, offset) ==
  LET endPos == IF parseMode # "kIso8601"
                THEN skipSpaces(str, len, timezonePos)
                ELSE timezonePos
      useOffset == parseMode = "kPrestoCast" /\ offset.ok
  IN  IF timeZone = "nullptr" /\ ~useOffset
      THEN Unexpected(UserError(
             <<"Unknown timezone value: \"{}\"", timeZoneName>>))
      ELSE IF endPos < len THEN Unexpected(parserError(str, len))
      ELSE Expected(ParsedTimestampWithTimeZone(
             resultTimestamp,
             IF useOffset THEN "nullptr" ELSE timeZone,
             IF useOffset THEN optional(offset.result) ELSE nullopt))

(* Lines 1004-1027: timeZone is what tz::locateZone returned for the       *)
(* token, offset what tryParsePrestoTimeOffsetString returns for it.       *)
fromTimestampWithTimezoneStringToken(str, len, parseMode, timezonePos, timeZoneName, resultTimestamp, timeZone, offset) ==
  LET endPos == IF parseMode # "kIso8601"
                THEN skipSpaces(str, len, timezonePos)
                ELSE timezonePos
  IN  IF timeZone = "nullptr" /\ ~(parseMode = "kPrestoCast" /\ offset.ok)
      THEN Unexpected(UserError(
             <<"Unknown timezone value: \"{}\"", timeZoneName>>))
      ELSE IF endPos < len THEN Unexpected(parserError(str, len))
      ELSE Expected(ParsedTimestampWithTimeZone(
             resultTimestamp, timeZone,
             IF timeZone = "nullptr" THEN optional(offset.result)
             ELSE nullopt))

(* Lines 987-1027: what is left at pos is a time zone definition. *)
fromTimestampWithTimezoneStringZone(str, len, parseMode, pos, resultTimestamp) ==
  IF parseMode = "kIso8601"
     /\ At(str, pos) # Ord("Z") /\ At(str, pos) # Ord("+")
     /\ At(str, pos) # Ord("-")
  THEN Unexpected(parserError(str, len))
  ELSE LET timezonePos  == skipToSpace(str, len, pos)
           timeZoneName == SubSeq(str, pos + 1, timezonePos)
       IN  fromTimestampWithTimezoneStringToken(
             str, len, parseMode, timezonePos, timeZoneName, resultTimestamp,
             locateZone(timeZoneName),
             tryParsePrestoTimeOffsetString(timeZoneName, timezonePos - pos))

(* Lines 975-1027: parsed is what tryParseTimestampString returned. *)
fromTimestampWithTimezoneStringParsed(str, len, parseMode, parsed) ==
  IF IsThrown(parsed) THEN parsed
  ELSE IF ~parsed.ok THEN Unexpected(parserError(str, len))
  ELSE LET pos == IF parsed.pos < len /\ parseMode # "kIso8601"
                     /\ characterIsSpace(At(str, parsed.pos))
                  THEN parsed.pos + 1 ELSE parsed.pos
       IN  IF pos < len
           THEN fromTimestampWithTimezoneStringZone(
                  str, len, parseMode, pos, parsed.result)
           ELSE Expected(ParsedTimestampWithTimeZone(
                  parsed.result, "nullptr", nullopt))

fromTimestampWithTimezoneString(str, len, parseMode) ==
  fromTimestampWithTimezoneStringParsed(
    str, len, parseMode, tryParseTimestampString(str, len, 0, parseMode))

(* fromParsedTimestampWithTimeZone without the carry into the seconds. *)
fromParsedTimestampWithTimeZone_NoCarry(parsed, sessionTimeZone) ==
  IF parsed.timeZone # "nullptr"
  THEN toGMT(parsed.timestamp, parsed.timeZone)
  ELSE IF parsed.offsetMillis.has_value
  THEN LET seconds == I64Sub(parsed.timestamp.seconds,
                             I64(TruncDiv(parsed.offsetMillis.value,
                                          kMillisPerSecond)))
           nanos   == parsed.timestamp.nanos
                      - TruncRem(parsed.offsetMillis.value, kMillisPerSecond)
                        * kNanosPerMicro * kMicrosPerMsec
       IN  IF nanos < 0
           THEN Timestamp(I64Sub(seconds, I64(1)), nanos + kNanosInSecond)
           ELSE Timestamp(seconds, nanos)
  ELSE IF sessionTimeZone # "nullptr"
  THEN toGMT(parsed.timestamp, sessionTimeZone)
  ELSE parsed.timestamp

fromParsedTimestampWithTimeZone(parsed, sessionTimeZone) ==
  IF parsed.timeZone # "nullptr"
  THEN toGMT(parsed.timestamp, parsed.timeZone)
  ELSE IF parsed.offsetMillis.has_value
  THEN LET seconds == I64Sub(parsed.timestamp.seconds,
                             I64(TruncDiv(parsed.offsetMillis.value,
                                          kMillisPerSecond)))
           nanos   == parsed.timestamp.nanos
                      - TruncRem(parsed.offsetMillis.value, kMillisPerSecond)
                        * kNanosPerMicro * kMicrosPerMsec
       IN  IF nanos < 0
           THEN Timestamp(I64Sub(seconds, I64(1)), nanos + kNanosInSecond)
           ELSE IF nanos > kMaxNanos
           THEN Timestamp(I64Add(seconds, I64(1)), nanos - kNanosInSecond)
           ELSE Timestamp(seconds, nanos)
  ELSE IF sessionTimeZone # "nullptr"
  THEN toGMT(parsed.timestamp, sessionTimeZone)
  ELSE parsed.timestamp

----------------------------------------------------------------------------
(* Arguments the calls are made with.                                      *)

YearWindow == 1

PivotYears ==
  {kMinYear, -4, 0, 1900, 1970, 2000, 2024, 2100, 2370, 2400, 5881580, kMaxYear}

NearPivotYears ==
  {p + w : p \in PivotYears, w \in (0 - YearWindow)..YearWindow}

DateArgs ==
  {[year |-> y, month |-> m, day |-> d] :
     y \in NearPivotYears, m \in 0..13, d \in 0..32}
  \cup
  {[year |-> y, month |-> md[1], day |-> md[2]] :
     y \in (1970 - YearWindow)..(2370 + YearWindow),
     md \in {<<1, 1>>, <<2, 28>>, <<2, 29>>, <<3, 1>>, <<12, 31>>}}

pending == [pc |-> "call"]

Done(out) == [pc |-> "done", out |-> out]

----------------------------------------------------------------------------
(* daysSinceEpochFromDate as an entry point.                               *)

InitFromDate ==
  /\ fn = "daysSinceEpochFromDate"
  /\ args \in DateArgs
  /\ ret = pending
  /\ threadSkipErrorDetails \in BOOLEAN

CallDaysSinceEpochFromDate ==
  /\ fn = "daysSinceEpochFromDate"
  /\ ret.pc = "call"
  /\ ret' = Done(daysSinceEpochFromDate(args.year, args.month, args.day))
  /\ UNCHANGED <<fn, args, threadSkipErrorDetails>>

NextFromDate == CallDaysSinceEpochFromDate

SpecFromDate == InitFromDate /\ [][NextFromDate]_vars

----------------------------------------------------------------------------
(* extractISODayOfTheWeek as an entry point.  The day counts lie around 0  *)
(* and around both ends of the 32-bit range.                               *)

DayCountWindow == 30

DayCountArgs ==
  {[daysSinceEpoch |-> I64Add(base, I64(n))] :
     base \in {I64(0), Int32Min, Int32Max},
     n \in (0 - DayCountWindow)..DayCountWindow}

InitDayOfWeek ==
  /\ fn = "extractISODayOfTheWeek"
  /\ args \in DayCountArgs
  /\ ret = pending
  /\ threadSkipErrorDetails \in BOOLEAN

CallExtractISODayOfTheWeek ==
  /\ fn = "extractISODayOfTheWeek"
  /\ ret.pc = "call"
  /\ ret' = Done(extractISODayOfTheWeek(args.daysSinceEpoch))
  /\ UNCHANGED <<fn, args, threadSkipErrorDetails>>

NextDayOfWeek == CallExtractISODayOfTheWeek

SpecDayOfWeek == InitDayOfWeek /\ [][NextDayOfWeek]_vars

----------------------------------------------------------------------------
(* daysSinceEpochFromWeekDate as an entry point.                           *)

WeekDateArgs ==
  {[weekYear |-> y, weekOfYear |-> w, dayOfWeek |-> d] :
     y \in NearPivotYears, w \in 0..54, d \in 0..8}

InitWeekDate ==
  /\ fn = "daysSinceEpochFromWeekDate"
  /\ args \in WeekDateArgs
  /\ ret = pending
  /\ threadSkipErrorDetails \in BOOLEAN

CallDaysSinceEpochFromWeekDate ==
  /\ fn = "daysSinceEpochFromWeekDate"
  /\ ret.pc = "call"
  /\ ret' = Done(daysSinceEpochFromWeekDate(
                   args.weekYear, args.weekOfYear, args.dayOfWeek))
  /\ UNCHANGED <<fn, args, threadSkipErrorDetails>>

NextWeekDate == CallDaysSinceEpochFromWeekDate

SpecWeekDate == InitWeekDate /\ [][NextWeekDate]_vars

----------------------------------------------------------------------------
(* daysSinceEpochFromWeekOfMonthDate as an entry point.  The years have a  *)
(* month starting on each weekday, a February of 28 days starting on a     *)
(* Monday (2021) and a February of 29 days.                                *)

WeekOfMonthYears == {0, 1, 2021, 2023, 2024}

WeekOfMonthArgs ==
  {[year |-> y, month |-> m, weekOfMonth |-> w, dayOfWeek |-> d, lenient |-> l] :
     y \in WeekOfMonthYears, m \in -12..14, w \in 0..7, d \in -1..9,
     l \in BOOLEAN}

InitWeekOfMonthDate ==
  /\ fn = "daysSinceEpochFromWeekOfMonthDate"
  /\ args \in WeekOfMonthArgs
  /\ ret = pending
  /\ threadSkipErrorDetails \in BOOLEAN

CallDaysSinceEpochFromWeekOfMonthDate ==
  /\ fn = "daysSinceEpochFromWeekOfMonthDate"
  /\ ret.pc = "call"
  /\ ret' = Done(daysSinceEpochFromWeekOfMonthDate(
                   args.year, args.month, args.weekOfMonth, args.dayOfWeek,
                   args.lenient))
  /\ UNCHANGED <<fn, args, threadSkipErrorDetails>>

NextWeekOfMonthDate == CallDaysSinceEpochFromWeekOfMonthDate

SpecWeekOfMonthDate == InitWeekOfMonthDate /\ [][NextWeekOfMonthDate]_vars

----------------------------------------------------------------------------
(* fromDateString as an entry point.  The texts are                        *)
(* spaces + sign + year digits + rest + spaces, and a few shorter ones.    *)

MaxPadding == 1

ParseModes == {"kStrict", "kNonStrict", "kPrestoCast", "kSparkCast", "kIso8601"}

RECURSIVE Spaces(_)
Spaces(n) == IF n = 0 THEN <<>> ELSE <<" ">> \o Spaces(n - 1)

Padding == {Spaces(n) : n \in 0..MaxPadding}

Signs == {<<>>, <<"+">>, <<"-">>}

YearTexts ==
  { <<"0">>, <<"4", "4">>, <<"1", "0", "0">>, <<"2", "0", "2", "0">>,
    <<"5", "8", "8", "1", "5", "8", "0">>,
    <<"5", "8", "8", "1", "5", "8", "1">>,
    <<"2", "9", "2", "2", "7", "8", "9", "9", "4">>,
    <<"2", "9", "2", "2", "7", "8", "9", "9", "5">>,
    <<"2", "1", "4", "7", "4", "8", "3", "6", "5", "0">> }

DateRestTexts ==
  { <<>>, <<"T">>, <<"x">>,
    <<"-", "0", "7">>, <<"-", "0", "7", "T">>, <<"-", "1", "3">>,
    <<"-", "0", "1", "-", "1", "5">>,
    <<"-", "0", "7", "-", "1", "1">>,
    <<"-", "0", "7", "-", "1", "2">>,
    <<"-", "0", "2", "-", "2", "9">>,
    <<"-", "0", "2", "-", "3", "0">>,
    <<"-", "7", "-", "1">>,
    <<"-", "0", "0", "-", "0", "1">>,
    <<"/", "0", "7", "/", "1", "1">>,
    <<"\\", "0", "7", "\\", "1", "1">>,
    <<" ", "0", "7", " ", "1", "1">>,
    <<"-", "0", "7", "/", "1", "1">>,
    <<"-", "0", "7", "-", "1", "1", "T">>,
    <<"-", "0", "7", "-", "1", "1", "x">>,
    <<"-", "0", "7", "-", "1", "1", "1">>,
    <<"-", "0", "7", "-", "1", "1", " ", "(", "B", "C", ")">>,
    <<"-", "0", "7", "-", "1", "1", "\t", "(", "B", "C", ")">>,
    <<"-", "0", "7", "-", "1", "1", " ", " ", "(", "B", "C", ")">>,
    <<"-", "0", "7", "-", "1", "1", "(", "B", "C", ")">>,
    <<"-", "0", "2", "-", "2", "9", " ", "(", "B", "C", ")">> }

DateTexts ==
  {lead \o sign \o year \o rest \o trail :
     lead \in Padding, sign \in Signs, year \in YearTexts,
     rest \in DateRestTexts, trail \in Padding}
  \cup {<<>>, <<" ">>, <<"-">>, <<"+">>, <<"x">>, <<"-", "x">>}

DateStringArgs ==
  {[str |-> Bytes(s), len |-> Len(s), mode |-> m] :
     s \in DateTexts, m \in ParseModes}

(* How a call ended: by returning `out`, or by throwing. *)
Outcome(r) ==
  IF IsThrown(r) THEN [pc |-> "threw", what |-> r.thrown] ELSE Done(r)

InitDateString ==
  /\ fn = "fromDateString"
  /\ args \in DateStringArgs
  /\ ret = pending
  /\ threadSkipErrorDetails \in BOOLEAN

CallFromDateString ==
  /\ fn = "fromDateString"
  /\ ret.pc = "call"
  /\ ret' = Outcome(fromDateString(args.str, args.len, args.mode))
  /\ UNCHANGED <<fn, args, threadSkipErrorDetails>>

NextDateString == CallFromDateString

SpecDateString == InitDateString /\ [][NextDateString]_vars

(* tryParseDateString called by itself: what it returns is [ok, pos,       *)
(* daysSinceEpoch] with the int64_t day count.                             *)
InitTryParseDateString ==
  /\ fn = "tryParseDateString"
  /\ args \in DateStringArgs
  /\ ret = pending
  /\ threadSkipErrorDetails = FALSE

CallTryParseDateString ==
  /\ fn = "tryParseDateString"
  /\ ret.pc = "call"
  /\ ret' = Outcome(tryParseDateString(args.str, args.len, args.mode))
  /\ UNCHANGED <<fn, args, threadSkipErrorDetails>>

NextTryParseDateString == CallTryParseDateString

SpecTryParseDateString ==
  InitTryParseDateString /\ [][NextTryParseDateString]_vars

----------------------------------------------------------------------------
(* fromTimestampString and fromTimestampWithTimezoneString as entry        *)
(* points.  The texts are                                                  *)
(* spaces + date + separator + time + spaces + zone + trailer.             *)

TimestampParseModes == {"kIso8601", "kPrestoCast", "kLegacyCast", "kSparkCast"}

TsDateTexts ==
  { <<>>,
    <<"2", "0", "2", "0", "-", "0", "1", "-", "0", "1">>,
    <<"2", "0", "2", "0", "-", "0", "1">>,
    <<"-", "4", "4", "-", "1", "-", "1">> }

TsSeparatorTexts == {<<>>, <<" ">>, <<"T">>}

TsTimeTexts ==
  { <<>>, <<"x">>,
    <<"1", "2">>,
    <<"1", "2", ":", "3", "0">>,
    <<"1", "2", ":", "3", "0", ":", "4", "5">>,
    <<"1", "2", ":", "3", "0", ":", "4", "5", ".", "1", "2", "3", "4", "5", "6">>,
    <<"1", "2", ":", "3", "0", ":", "4", "5", ",", "5">>,
    <<"1", "2", ":", "3", "0", ":", "4", "5", ".">>,
    <<"2", "4", ":", "0", "0">> }

TsZoneTexts ==
  { <<>>, <<"x">>, <<"Z">>, <<"U", "T", "C">>,
    <<"+", "0", "1", ":", "0", "0">>,
    <<"+", "0", "5", ":", "3", "0">>,
    <<"+", "0", "5", "3", "0">>,
    <<"-", "0", "8">>,
    <<"+", "0", "5", ":", "3", "x">>,
    <<"+", "2", "4">> }

TsTrailTexts == Padding \cup {<<" ", "x">>}

TimestampTexts ==
  {lead \o date \o sep \o time \o gap \o zone \o trail :
     lead \in Padding, date \in TsDateTexts, sep \in TsSeparatorTexts,
     time \in TsTimeTexts, gap \in Padding, zone \in TsZoneTexts,
     trail \in TsTrailTexts}

TimestampStringArgs ==
  {[str |-> Bytes(s), len |-> Len(s), parseMode |-> m] :
     s \in TimestampTexts, m \in TimestampParseModes}

InitTimestampString ==
  /\ fn = "fromTimestampString"
  /\ args \in TimestampStringArgs
  /\ ret = pending
  /\ threadSkipErrorDetails \in BOOLEAN

CallFromTimestampString ==
  /\ fn = "fromTimestampString"
  /\ ret.pc = "call"
  /\ ret' = Outcome(fromTimestampString(args.str, args.len, args.parseMode))
  /\ UNCHANGED <<fn, args, threadSkipErrorDetails>>

NextTimestampString == CallFromTimestampString

SpecTimestampString == InitTimestampString /\ [][NextTimestampString]_vars

(* tryParseTimestampString called by itself, with pos = 0. *)
InitTryParseTimestampString ==
  /\ fn = "tryParseTimestampString"
  /\ args \in TimestampStringArgs
  /\ ret = pending
  /\ threadSkipErrorDetails = FALSE

CallTryParseTimestampString ==
  /\ fn = "tryParseTimestampString"
  /\ ret.pc = "call"
  /\ ret' = Outcome(tryParseTimestampString(
                      args.str, args.len, 0, args.parseMode))
  /\ UNCHANGED <<fn, args, threadSkipErrorDetails>>

NextTryParseTimestampString == CallTryParseTimestampString

SpecTryParseTimestampString ==
  InitTryParseTimestampString /\ [][NextTryParseTimestampString]_vars

(* tryParseTimeString as an entry point.  The texts are                    *)
(* spaces + hours + minutes + seconds + fraction + spaces.                 *)
TimeHourTexts == {<<"1", "2">>, <<"7">>, <<"2", "4">>, <<"x">>}

TimeMinuteTexts == {<<>>, <<":", "3", "0">>, <<":", "5">>, <<":", "6", "0">>}

TimeSecondTexts == {<<>>, <<":", "4", "5">>, <<":", "6", "0">>, <<":", "6", "1">>}

TimeFractionTexts ==
  { <<>>, <<".">>, <<".", "5">>, <<",", "5">>,
    <<".", "1", "2", "3", "4", "5", "6">>,
    <<".", "1", "2", "3", "4", "5", "6", "7", "8">>,
    <<"1">>, <<"1", "2", "3">>, <<".", "x">>, <<"x">> }

TimeTexts ==
  {lead \o hour \o min \o sec \o fraction \o trail :
     lead \in Padding, hour \in TimeHourTexts, min \in TimeMinuteTexts,
     sec \in TimeSecondTexts, fraction \in TimeFractionTexts,
     trail \in Padding}
  \cup {<<>>}

TimeStringArgs ==
  {[str |-> Bytes(s), len |-> Len(s), parseMode |-> m] :
     s \in TimeTexts, m \in TimestampParseModes}

InitTimeString ==
  /\ fn = "tryParseTimeString"
  /\ args \in TimeStringArgs
  /\ ret = pending
  /\ threadSkipErrorDetails = FALSE

CallTryParseTimeString ==
  /\ fn = "tryParseTimeString"
  /\ ret.pc = "call"
  /\ ret' = Outcome(tryParseTimeString(args.str, args.len, args.parseMode))
  /\ UNCHANGED <<fn, args, threadSkipErrorDetails>>

NextTimeString == CallTryParseTimeString

SpecTimeString == InitTimeString /\ [][NextTimeString]_vars

(* tryParsePrestoTimeOffsetString as an entry point.  The texts are       *)
(* sign + hours + minutes + seconds + fraction.                            *)
OffsetSignTexts == {<<"+">>, <<"-">>, <<>>, <<"x">>}

OffsetHourTexts == {<<"0", "5">>, <<"5">>, <<"2", "3">>, <<"2", "4">>, <<>>}

OffsetMinuteTexts ==
  {<<>>, <<":", "3", "0">>, <<"3", "0">>, <<":", "6", "0">>, <<":">>}

OffsetSecondTexts == {<<>>, <<":", "1", "5">>, <<"1", "5">>, <<":", "6", "0">>}

OffsetFractionTexts ==
  { <<>>, <<".", "1">>, <<".", "1", "2", "3">>, <<",", "5">>,
    <<"1", "2", "3">>, <<".", "1", "2", "3", "4">>, <<".">>, <<"x">> }

OffsetTexts ==
  {sign \o hour \o min \o sec \o fraction :
     sign \in OffsetSignTexts, hour \in OffsetHourTexts,
     min \in OffsetMinuteTexts, sec \in OffsetSecondTexts,
     fraction \in OffsetFractionTexts}

OffsetStringArgs == {[str |-> Bytes(s), len |-> Len(s)] : s \in OffsetTexts}

InitOffsetString ==
  /\ fn = "tryParsePrestoTimeOffsetString"
  /\ args \in OffsetStringArgs
  /\ ret = pending
  /\ threadSkipErrorDetails = FALSE

CallTryParsePrestoTimeOffsetString ==
  /\ fn = "tryParsePrestoTimeOffsetString"
  /\ ret.pc = "call"
  /\ ret' = Outcome(tryParsePrestoTimeOffsetString(args.str, args.len))
  /\ UNCHANGED <<fn, args, threadSkipErrorDetails>>

NextOffsetString == CallTryParsePrestoTimeOffsetString

SpecOffsetString == InitOffsetString /\ [][NextOffsetString]_vars

InitTimestampWithTimezoneString ==
  /\ fn = "fromTimestampWithTimezoneString"
  /\ args \in TimestampStringArgs
  /\ ret = pending
  /\ threadSkipErrorDetails \in BOOLEAN

CallFromTimestampWithTimezoneString ==
  /\ fn = "fromTimestampWithTimezoneString"
  /\ ret.pc = "call"
  /\ ret' = Outcome(fromTimestampWithTimezoneString(
                      args.str, args.len, args.parseMode))
  /\ UNCHANGED <<fn, args, threadSkipErrorDetails>>

NextTimestampWithTimezoneString == CallFromTimestampWithTimezoneString

SpecTimestampWithTimezoneString ==
  InitTimestampWithTimezoneString /\ [][NextTimestampWithTimezoneString]_vars

----------------------------------------------------------------------------
(* fromParsedTimestampWithTimeZone as an entry point.                      *)

MaxSeconds == 2

ParsedArgs ==
  {[parsed |-> ParsedTimestampWithTimeZone(Timestamp(I64(s), n), tz, off),
    sessionTimeZone |-> session] :
     s \in (0 - MaxSeconds)..MaxSeconds,
     n \in {0, 1, 999999, 1000000, 499999999, 500000000, 999000000, 999999999},
     tz \in {"nullptr", "UTC", "+01:00"},
     off \in {nullopt} \cup
             {optional(o) : o \in {0, 1, -1, 999, -999, 1000, -1000, 1001,
                                   -1001, 1500, -1500, 19800000, -19800000,
                                   86399999, -86399999}},
     session \in {"nullptr", "-08:00"}}

InitParsedTimestamp ==
  /\ fn = "fromParsedTimestampWithTimeZone"
  /\ args \in ParsedArgs
  /\ ret = pending
  /\ threadSkipErrorDetails \in BOOLEAN

CallFromParsedTimestampWithTimeZone ==
  /\ fn = "fromParsedTimestampWithTimeZone"
  /\ ret.pc = "call"
  /\ ret' = Done(fromParsedTimestampWithTimeZone(
                   args.parsed, args.sessionTimeZone))
  /\ UNCHANGED <<fn, args, threadSkipErrorDetails>>

NextParsedTimestamp == CallFromParsedTimestampWithTimeZone

SpecParsedTimestamp == InitParsedTimestamp /\ [][NextParsedTimestamp]_vars

----------------------------------------------------------------------------
(* Reference calendar, independent of the tables: the proleptic Gregorian  *)
(* leap rule with mathematical (floor) modulo, and the civil-date          *)
(* algorithms over 400-year eras that start on March 1st.                  *)

RefIsLeap(y) == y % 4 = 0 /\ (y % 100 # 0 \/ y % 400 = 0)

RefMonthLength(y, m) ==
  IF m = 2 THEN (IF RefIsLeap(y) THEN 29 ELSE 28)
  ELSE IF m \in {4, 6, 9, 11} THEN 30
  ELSE 31

RefValidDate(y, m, d) ==
  /\ m >= 1 /\ m <= 12
  /\ y >= kMinYear /\ y <= kMaxYear
  /\ d >= 1 /\ d <= RefMonthLength(y, m)

RefNextDay(y, m, d) ==
  IF d < RefMonthLength(y, m) THEN <<y, m, d + 1>>
  ELSE IF m < 12 THEN <<y, m + 1, 1>>
  ELSE <<y + 1, 1, 1>>

RefDaysFromCivil(y, m, d) ==
  LET yy  == IF m <= 2 THEN y - 1 ELSE y
      era == yy \div 400
      yoe == yy - era * 400
      doy == (153 * (IF m > 2 THEN m - 3 ELSE m + 9) + 2) \div 5 + d - 1
      doe == yoe * 365 + yoe \div 4 - yoe \div 100 + doy
  IN  I64Add(I64Mul(I64(era), I64(146097)), I64(doe - 719468))

RefCivilFromDays(days) ==
  LET z   == I64FloorDivMod(I64Add(days, I64(719468)), 146097)
      era == I64ToInt(z[1])
      doe == z[2]
      yoe == (doe - doe \div 1460 + doe \div 36524 - doe \div 146096) \div 365
      doy == doe - (365 * yoe + yoe \div 4 - yoe \div 100)
      mp  == (5 * doy + 2) \div 153
      d   == doy - (153 * mp + 2) \div 5 + 1
      m   == IF mp < 10 THEN mp + 3 ELSE mp - 9
      y   == yoe + era * 400 + (IF m <= 2 THEN 1 ELSE 0)
  IN  <<y, m, d>>

----------------------------------------------------------------------------
(* C1: for every date that isValidDate accepts, daysSinceEpochFromDate     *)
(* returns a day count that the reference inverse converts back to the     *)
(* same (year, month, day); 1970-01-01 maps to 0; and the next calendar    *)
(* day, when it is a valid date, maps to the count plus one.               *)
C1_DateRoundTrip ==
  (fn = "daysSinceEpochFromDate" /\ ret.pc = "done"
     /\ isValidDate(args.year, args.month, args.day))
  => /\ ~ret.out.hasError
     /\ RefCivilFromDays(ret.out.value) = <<args.year, args.month, args.day>>
     /\ (<<args.year, args.month, args.day>> = <<1970, 1, 1>>
           => ret.out.value = I64(0))
     /\ LET next == RefNextDay(args.year, args.month, args.day)
        IN  isValidDate(next[1], next[2], next[3])
            => /\ ~daysSinceEpochFromDate(next[1], next[2], next[3]).hasError
               /\ daysSinceEpochFromDate(next[1], next[2], next[3]).value
                    = I64Add(ret.out.value, I64(1))

(* A leap day beyond the table's 400-year window has been converted. *)
C1_Witness ==
  /\ fn = "daysSinceEpochFromDate" /\ ret.pc = "done"
  /\ args.year >= 2370 /\ args.month = 2 /\ args.day = 29
  /\ ~ret.out.hasError

(* C2: daysSinceEpochFromDate returns the "Date out of range" user error,  *)
(* and no day count, exactly when the month is outside 1..12, the year is  *)
(* outside kMinYear..kMaxYear or the day is outside 1..(length of the      *)
(* month under the Gregorian leap rule); every other input succeeds.       *)
C2_DateOutOfRangeExactly ==
  (fn = "daysSinceEpochFromDate" /\ ret.pc = "done")
  => /\ ret.out.hasError <=> ~RefValidDate(args.year, args.month, args.day)
     /\ ret.out.hasError
          => /\ ret.out.error.code = "UserError"
             /\ ret.out.error.message =
                  IF threadSkipErrorDetails THEN <<>>
                  ELSE <<"Date out of range: {}-{}-{}",
                         args.year, args.month, args.day>>

(* February 29th of 1900 has been rejected. *)
C2_Witness ==
  /\ fn = "daysSinceEpochFromDate" /\ ret.pc = "done"
  /\ args.year = 1900 /\ args.month = 2 /\ args.day = 29
  /\ ret.out.hasError

(* The ISO weekday of a day count by floor modulo: 1 = Monday .. 7 = Sunday, *)
(* day 0 being a Thursday.                                                 *)
RefDayOfWeek(days) == I64FloorDivMod(I64Add(days, I64(3)), 7)[2] + 1

(* C3: for every day count d, extractISODayOfTheWeek(d) is in 1..7, it is  *)
(* 4 for d = 0, extractISODayOfTheWeek(d + 1) is its cyclic successor and  *)
(* extractISODayOfTheWeek(d + 7) is equal to it, for negative d as well.   *)
C3_DayOfWeekCycle ==
  (fn = "extractISODayOfTheWeek" /\ ret.pc = "done")
  => /\ ret.out \in 1..7
     /\ (args.daysSinceEpoch = I64(0) => ret.out = 4)
     /\ extractISODayOfTheWeek(I64Add(args.daysSinceEpoch, I64(1)))
          = (ret.out % 7) + 1
     /\ extractISODayOfTheWeek(I64Add(args.daysSinceEpoch, I64(7))) = ret.out

(* The weekday of a negative day count whose seventh successor is not      *)
(* negative has been extracted.                                            *)
C3_Witness ==
  /\ fn = "extractISODayOfTheWeek" /\ ret.pc = "done"
  /\ args.daysSinceEpoch = I64(-3)
  /\ ret.out = 1

(* C9: for weekYear in kMinYear..kMaxYear, weekOfYear in 1..52 and         *)
(* dayOfWeek in 1..7, daysSinceEpochFromWeekDate returns the Monday of the *)
(* Monday-to-Sunday week that contains January 4th of weekYear, plus       *)
(* 7 * (weekOfYear - 1) + (dayOfWeek - 1) days; the weekday of the result  *)
(* is dayOfWeek; for week 1 the result lies in the week of January 4th.    *)
(* Every other input returns the "Date out of range" user error.           *)
C9_WeekDate ==
  (fn = "daysSinceEpochFromWeekDate" /\ ret.pc = "done")
  => LET inRange == /\ args.weekYear >= kMinYear /\ args.weekYear <= kMaxYear
                    /\ args.weekOfYear >= 1 /\ args.weekOfYear <= 52
                    /\ args.dayOfWeek >= 1 /\ args.dayOfWeek <= 7
         janFourth == RefDaysFromCivil(args.weekYear, 1, 4)
         monday    == I64Sub(janFourth, I64(RefDayOfWeek(janFourth) - 1))
     IN  IF inRange
         THEN /\ ~ret.out.hasError
              /\ ret.out.value =
                   I64Add(monday, I64(7 * (args.weekOfYear - 1)
                                      + (args.dayOfWeek - 1)))
              /\ extractISODayOfTheWeek(ret.out.value) = args.dayOfWeek
              /\ RefDayOfWeek(monday) = 1
              /\ I64LessEq(monday, janFourth)
              /\ I64LessEq(janFourth, I64Add(monday, I64(6)))
              /\ args.weekOfYear = 1
                   => /\ I64LessEq(monday, ret.out.value)
                      /\ I64LessEq(ret.out.value, I64Add(monday, I64(6)))
         ELSE /\ ret.out.hasError
              /\ ret.out.error.code = "UserError"
              /\ ret.out.error.message =
                   IF threadSkipErrorDetails THEN <<>>
                   ELSE <<"Date out of range: {}-{}-{}",
                          args.weekYear, args.weekOfYear, args.dayOfWeek>>

(* A Sunday of week 1 of a year whose January 1st is not in week 1 has     *)
(* been converted (January 1st of 2000 was a Saturday).                    *)
C9_Witness ==
  /\ fn = "daysSinceEpochFromWeekDate" /\ ret.pc = "done"
  /\ args.weekYear = 2000 /\ args.weekOfYear = 1 /\ args.dayOfWeek = 7
  /\ ~ret.out.hasError
  /\ RefCivilFromDays(ret.out.value) = <<2000, 1, 9>>

(* Week 53 has been rejected. *)
C9_WitnessWeek53 ==
  /\ fn = "daysSinceEpochFromWeekDate" /\ ret.pc = "done"
  /\ args.weekYear = 2000 /\ args.weekOfYear = 53 /\ args.dayOfWeek = 1
  /\ ret.out.hasError

(* C4: on every success path of the date-string parser, in every dialect,  *)
(* the day count that fromDateString returns is the parsed date's day      *)
(* count and lies within the signed 32-bit range; a date whose day count   *)
(* is outside that range is rejected, not returned truncated.              *)
C4_DayCountFitsInt32 ==
  (fn = "fromDateString" /\ ret.pc = "done" /\ ~ret.out.hasError)
  => LET parsed == tryParseDateString(args.str, args.len, args.mode)
     IN  /\ validDate(parsed.daysSinceEpoch)
         /\ I64(ret.out.value) = parsed.daysSinceEpoch

(* C5: in each of the five dialects, for every text the date parser        *)
(* rejects, fromDateString returns a user error to its caller and does not *)
(* reach the unreachable-assertion branch, with or without error-detail    *)
(* suppression.                                                            *)
C5_RejectionIsUserError ==
  (fn = "fromDateString" /\ ret.pc # "call"
     /\ ~IsThrown(tryParseDateString(args.str, args.len, args.mode))
     /\ ~tryParseDateString(args.str, args.len, args.mode).ok)
  => /\ ret.pc = "done"
     /\ ret.out.hasError
     /\ ret.out.error.code = "UserError"

(* Every character of str from position `from` on is whitespace. *)
AllSpace(str, len, from) ==
  \A i \in from..(len - 1) : characterIsSpace(At(str, i))

(* C6: fromTimestampString succeeds only when the whole input is accounted *)
(* for: after what the composer parsed, every remaining character is       *)
(* whitespace, the result is the composer's, and the VELOX_CHECK_EQ(pos,   *)
(* len) assertion does not fire.  When the composer reports a success that *)
(* leaves a non-whitespace remainder, the parse error is returned.         *)
C6_WholeInputConsumed ==
  (fn = "fromTimestampString" /\ ret.pc # "call")
  => LET composed ==
           tryParseTimestampString(args.str, args.len, 0, args.parseMode)
     IN  /\ ret.pc = "threw" => ret.what # "VELOX_CHECK_EQ(pos, len)"
         /\ (ret.pc = "done" /\ ~ret.out.hasError)
              => /\ ~IsThrown(composed)
                 /\ composed.ok
                 /\ AllSpace(args.str, args.len, composed.pos)
                 /\ ret.out.value = composed.result
         /\ (~IsThrown(composed) /\ composed.ok
               /\ ~AllSpace(args.str, args.len, composed.pos))
              => /\ ret.pc = "done"
                 /\ ret.out.hasError
                 /\ ret.out.error = parserError(args.str, args.len)

(* "2020-01-01 x": the composer returned the date and left "x"; the call   *)
(* returned the parse error.                                               *)
C6_Witness ==
  /\ fn = "fromTimestampString" /\ ret.pc = "done"
  /\ args.parseMode = "kPrestoCast"
  /\ args.str = Bytes(<<"2", "0", "2", "0", "-", "0", "1", "-", "0", "1",
                        " ", "x">>)
  /\ tryParseTimestampString(args.str, args.len, 0, args.parseMode).ok
  /\ ret.out.hasError

(* What fromTimestampWithTimezoneString finds behind the position p where  *)
(* the composer stopped: the start of the token, behind the one separating *)
(* space that is skipped outside ISO 8601 mode, and the token, which ends  *)
(* at the next whitespace.                                                 *)
ZoneTokenStart(str, len, parseMode, p) ==
  IF p < len /\ parseMode # "kIso8601" /\ characterIsSpace(At(str, p))
  THEN p + 1 ELSE p

ZoneToken(str, len, start) ==
  SubSeq(str, start + 1, skipToSpace(str, len, start))

(* C7: a successful result of fromTimestampWithTimezoneString never has    *)
(* both a time zone and an offset; the offset is populated only when the   *)
(* zone lookup of the token found no zone; and neither is populated        *)
(* exactly when nothing is left behind the timestamp and one optional      *)
(* separating space.                                                       *)
C7_AtMostOneZoneSource ==
  (fn = "fromTimestampWithTimezoneString" /\ ret.pc = "done"
     /\ ~ret.out.hasError)
  => LET v == ret.out.value
         p == tryParseTimestampString(args.str, args.len, 0, args.parseMode).pos
         nothingLeft == \/ p >= args.len
                        \/ (characterIsSpace(At(args.str, p))
                            /\ p + 1 >= args.len)
     IN  /\ ~(v.timeZone # "nullptr" /\ v.offsetMillis.has_value)
         /\ v.offsetMillis.has_value
              => locateZone(ZoneToken(args.str, args.len,
                                      ZoneTokenStart(args.str, args.len,
                                                     args.parseMode, p)))
                   = "nullptr"
         /\ (v.timeZone = "nullptr" /\ ~v.offsetMillis.has_value)
              <=> nothingLeft

(* A token that is no zone name has been accepted as an offset. *)
C7_Witness ==
  /\ fn = "fromTimestampWithTimezoneString" /\ ret.pc = "done"
  /\ ~ret.out.hasError
  /\ ret.out.value.timeZone = "nullptr"
  /\ ret.out.value.offsetMillis = optional(19800000)

(* The nanoseconds since the epoch of a timestamp. *)
TotalNanos(timestamp) ==
  I64Add(I64Mul(timestamp.seconds, I64(1000000000)), I64(timestamp.nanos))

(* C8: with no zone but an offset of o milliseconds and nanoseconds in     *)
(* 0..999999999, fromParsedTimestampWithTimeZone returns (s', n') with     *)
(* s' * 10^9 + n' = s * 10^9 + n - o * 10^6 and n' in 0..999999999, the    *)
(* borrow and the carry each changing the seconds by one.  The zone of the *)
(* parsed value comes first, then the offset, then the session zone; with  *)
(* none of them the timestamp is returned unchanged.                       *)
C8_OffsetArithmetic ==
  (fn = "fromParsedTimestampWithTimeZone" /\ ret.pc = "done")
  => LET p  == args.parsed
         ts == p.timestamp
         o  == p.offsetMillis.value
         whole == I64Sub(ts.seconds, I64(TruncDiv(o, 1000)))
         raw   == ts.nanos - TruncRem(o, 1000) * 1000000
     IN  IF p.timeZone # "nullptr" THEN ret.out = toGMT(ts, p.timeZone)
         ELSE IF p.offsetMillis.has_value
         THEN /\ TotalNanos(ret.out)
                   = I64Sub(TotalNanos(ts), I64Mul(I64(o), I64(1000000)))
              /\ ret.out.nanos >= 0 /\ ret.out.nanos <= 999999999
              /\ ret.out.seconds =
                   IF raw < 0 THEN I64Sub(whole, I64(1))
                   ELSE IF raw > 999999999 THEN I64Add(whole, I64(1))
                   ELSE whole
         ELSE IF args.sessionTimeZone # "nullptr"
         THEN ret.out = toGMT(ts, args.sessionTimeZone)
         ELSE ret.out = ts

(* A negative offset has carried into the seconds. *)
C8_Witness ==
  /\ fn = "fromParsedTimestampWithTimeZone" /\ ret.pc = "done"
  /\ args.parsed.timeZone = "nullptr"
  /\ args.parsed.offsetMillis = optional(-999)
  /\ args.parsed.timestamp = Timestamp(I64(0), 999999999)
  /\ ret.out = Timestamp(I64(1), 998999999)

(* C10 as stated: when a non-empty token is left behind the timestamp, a   *)
(* token that resolves as a zone name gives that zone; otherwise, in the   *)
(* Presto cast dialect only, a token the offset grammar accepts entirely   *)
(* gives that offset; otherwise the call fails with "Unknown timezone      *)
(* value" naming the token.  Behind an accepted token only whitespace may  *)
(* follow.                                                                 *)
C10_TokenDecisionOrder ==
  (fn = "fromTimestampWithTimezoneString" /\ ret.pc = "done")
  => LET composed ==
           tryParseTimestampString(args.str, args.len, 0, args.parseMode)
         start  == ZoneTokenStart(args.str, args.len, args.parseMode,
                                  composed.pos)
         token  == ZoneToken(args.str, args.len, start)
         zone   == locateZone(token)
         offset == tryParsePrestoTimeOffsetString(token, Len(token))
         tailOk == AllSpace(args.str, args.len, start + Len(token))
     IN  (composed.ok /\ token # <<>>) =>
         IF zone # "nullptr"
         THEN IF tailOk
              THEN /\ ~ret.out.hasError
                   /\ ret.out.value.timeZone = zone
                   /\ ret.out.value.offsetMillis = nullopt
              ELSE ret.out.hasError
         ELSE IF args.parseMode = "kPrestoCast" /\ offset.ok
         THEN IF tailOk
              THEN /\ ~ret.out.hasError
                   /\ ret.out.value.timeZone = "nullptr"
                   /\ ret.out.value.offsetMillis = optional(offset.result)
              ELSE ret.out.hasError
         ELSE /\ ret.out.hasError
              /\ ret.out.error
                   = UserError(<<"Unknown timezone value: \"{}\"", token>>)

(* C10 as amended: as stated outside ISO 8601 mode.  In ISO 8601 mode a    *)
(* token that does not begin with 'Z', '+' or '-' fails with the parse     *)
(* error before any lookup, and an accepted token must end the input:      *)
(* whitespace behind it fails the parse too.                               *)
C10_TokenDecisionOrderAmended ==
  (fn = "fromTimestampWithTimezoneString" /\ ret.pc = "done")
  => LET composed ==
           tryParseTimestampString(args.str, args.len, 0, args.parseMode)
         start  == ZoneTokenStart(args.str, args.len, args.parseMode,
                                  composed.pos)
         token  == ZoneToken(args.str, args.len, start)
         zone   == locateZone(token)
         offset == tryParsePrestoTimeOffsetString(token, Len(token))
         end    == start + Len(token)
         tailOk == IF args.parseMode = "kIso8601" THEN end = args.len
                   ELSE AllSpace(args.str, args.len, end)
         parseError ==
           /\ ret.out.hasError
           /\ ret.out.error = parserError(args.str, args.len)
     IN  (composed.ok /\ token # <<>>) =>
         IF args.parseMode = "kIso8601"
            /\ token[1] \notin {Ord("Z"), Ord("+"), Ord("-")}
         THEN parseError
         ELSE IF zone # "nullptr"
         THEN IF tailOk
              THEN /\ ~ret.out.hasError
                   /\ ret.out.value.timeZone = zone
                   /\ ret.out.value.offsetMillis = nullopt
              ELSE parseError
         ELSE IF args.parseMode = "kPrestoCast" /\ offset.ok
         THEN IF tailOk
              THEN /\ ~ret.out.hasError
                   /\ ret.out.value.timeZone = "nullptr"
                   /\ ret.out.value.offsetMillis = optional(offset.result)
              ELSE parseError
         ELSE /\ ret.out.hasError
              /\ ret.out.error
                   = UserError(<<"Unknown timezone value: \"{}\"", token>>)

(* In the Presto cast dialect, a token that is a zone name and also fits   *)
(* the offset grammar has given the zone.                                  *)
C10_Witness ==
  /\ fn = "fromTimestampWithTimezoneString" /\ ret.pc = "done"
  /\ args.parseMode = "kPrestoCast"
  /\ args.str = Bytes(<<"2", "0", "2", "0", "-", "0", "1", "-", "0", "1",
                        " ", "+", "0", "1", ":", "0", "0">>)
  /\ ~ret.out.hasError
  /\ ret.out.value.timeZone = "+01:00"
  /\ ret.out.value.offsetMillis = nullopt

(* The shape of a date text as a reader sees it: the leading whitespace,   *)
(* the sign, the digits of the year.                                       *)
RECURSIVE RefCountSpaces(_, _)
RefCountSpaces(str, pos) ==
  IF pos < Len(str) /\ characterIsSpace(str[pos + 1])
  THEN 1 + RefCountSpaces(str, pos + 1)
  ELSE 0

RECURSIVE RefCountDigits(_, _)
RefCountDigits(str, pos) ==
  IF pos < Len(str) /\ characterIsDigit(str[pos + 1])
  THEN 1 + RefCountDigits(str, pos + 1)
  ELSE 0

RefIsSign(c) == c = Ord("+") \/ c = Ord("-")

RefLeadingSpaces(str) == RefCountSpaces(str, 0)

RefSignLength(str) ==
  IF RefLeadingSpaces(str) < Len(str)
     /\ RefIsSign(str[RefLeadingSpaces(str) + 1])
  THEN 1 ELSE 0

RefYearStart(str) == RefLeadingSpaces(str) + RefSignLength(str)

RefYearDigits(str) == RefCountDigits(str, RefYearStart(str))

(* C11: in the Spark cast dialect tryParseDateString rejects every input   *)
(* whose year has fewer than 4 digits, counting only the digits of the     *)
(* year: neither the sign nor the leading whitespace that was skipped.     *)
C11_SparkYearDigits ==
  (fn = "tryParseDateString" /\ ret.pc = "done"
     /\ args.mode = "kSparkCast" /\ RefYearDigits(args.str) < 4)
  => ~ret.out.ok


(* The value of the digits from pos on, as a reader of the text takes it;  *)
(* a value beyond every supported year is reported as RefTooLarge.         *)
RefTooLarge == kMaxYear + 1

RECURSIVE RefDigitsValue(_, _, _)
RefDigitsValue(str, pos, acc) ==
  IF pos < Len(str) /\ characterIsDigit(str[pos + 1])
  THEN IF acc > 200000000 THEN RefTooLarge
       ELSE RefDigitsValue(str, pos + 1, acc * 10 + (str[pos + 1] - Ord("0")))
  ELSE acc

RefYearEnd(str) == RefYearStart(str) + RefYearDigits(str)

RefYear(str) ==
  IF RefSignLength(str) = 1 /\ str[RefLeadingSpaces(str) + 1] = Ord("-")
  THEN -RefDigitsValue(str, RefYearStart(str), 0)
  ELSE RefDigitsValue(str, RefYearStart(str), 0)

RefEndsOrT(str, pos) == pos = Len(str) \/ str[pos + 1] = Ord("T")

(* The text is [spaces][sign]digits and ends, or goes on with 'T'. *)
RefYearOnly(str) ==
  RefYearDigits(str) >= 1 /\ RefEndsOrT(str, RefYearEnd(str))

RefMonthDigits(str) == RefCountDigits(str, RefYearEnd(str) + 1)

RefMonth(str) == RefDigitsValue(str, RefYearEnd(str) + 1, 0)

(* The text is [spaces][sign]digits-m or -mm and ends, or goes on with 'T'. *)
RefYearMonthOnly(str) ==
  /\ RefYearDigits(str) >= 1
  /\ RefYearEnd(str) < Len(str)
  /\ str[RefYearEnd(str) + 1] = Ord("-")
  /\ RefMonthDigits(str) \in {1, 2}
  /\ RefEndsOrT(str, RefYearEnd(str) + 1 + RefMonthDigits(str))

RefFitsInt32(days) ==
  /\ I64LessEq(I64Neg(I64Add(I64(2147483647), I64(1))), days)
  /\ I64LessEq(days, I64(2147483647))

(* The year/month range validation: a supported year, a month of the      *)
(* calendar, and a first day whose count is a 32-bit day count.            *)
RefFirstDayInRange(y, m) ==
  /\ y >= kMinYear /\ y <= kMaxYear
  /\ m \in 1..12
  /\ RefFitsInt32(RefDaysFromCivil(y, m, 1))

RefSucceeded == ret.pc = "done" /\ ret.out.ok

(* What a partial date of year y and month m must come to. *)
RefPartialDateResult(y, m) ==
  IF RefFirstDayInRange(y, m)
  THEN RefSucceeded /\ ret.out.daysSinceEpoch = RefDaysFromCivil(y, m, 1)
  ELSE ~RefSucceeded

(* The dialects that take a partial date, and where the text starts there: *)
(* the ISO 8601 dialect skips no leading whitespace.                       *)
RefPartialDialect(a) ==
  \/ a.mode = "kSparkCast"
  \/ a.mode = "kIso8601" /\ RefLeadingSpaces(a.str) = 0

RefOtherDialect(a) == a.mode \in {"kPrestoCast", "kStrict", "kNonStrict"}

(* C12 as stated: in the Spark cast and ISO 8601 dialects a text that ends *)
(* (or goes on with 'T') behind the year yields January 1st of that year,  *)
(* one that ends (or goes on with 'T') behind the month yields the 1st of  *)
(* that month, both under the year/month range validation; the Presto      *)
(* cast, strict and non-strict dialects reject both kinds of text.         *)
C12_PartialDate ==
  (fn = "tryParseDateString" /\ ret.pc # "call")
  => /\ (RefPartialDialect(args) /\ RefYearOnly(args.str))
          => RefPartialDateResult(RefYear(args.str), 1)
     /\ (RefPartialDialect(args) /\ RefYearMonthOnly(args.str))
          => RefPartialDateResult(RefYear(args.str), RefMonth(args.str))
     /\ (RefOtherDialect(args)
           /\ (RefYearOnly(args.str) \/ RefYearMonthOnly(args.str)))
          => ~RefSucceeded

(* The Spark cast dialect with a year of at least 4 digits, or ISO 8601. *)
RefPartialDialectFourDigits(a) ==
  /\ RefPartialDialect(a)
  /\ a.mode = "kSparkCast" => RefYearDigits(a.str) >= 4

(* C12 amended: the same, where in the Spark cast dialect the year is      *)
(* written with at least 4 digits.                                         *)
C12_PartialDateAmended ==
  (fn = "tryParseDateString" /\ ret.pc # "call")
  => /\ (RefPartialDialectFourDigits(args) /\ RefYearOnly(args.str))
          => RefPartialDateResult(RefYear(args.str), 1)
     /\ (RefPartialDialectFourDigits(args) /\ RefYearMonthOnly(args.str))
          => RefPartialDateResult(RefYear(args.str), RefMonth(args.str))
     /\ (RefOtherDialect(args)
           /\ (RefYearOnly(args.str) \/ RefYearMonthOnly(args.str)))
          => ~RefSucceeded

(* A year-month text followed by 'T' parsed in the Spark cast dialect. *)
C12_Witness ==
  /\ fn = "tryParseDateString" /\ ret.pc = "done"
  /\ args.mode = "kSparkCast"
  /\ RefYearMonthOnly(args.str)
  /\ RefYear(args.str) = 2020 /\ RefMonth(args.str) = 7
  /\ args.str[args.len] = Ord("T")
  /\ ret.out.ok
  /\ ret.out.daysSinceEpoch = RefDaysFromCivil(2020, 7, 1)


(* The date dialect the composer hands to the date parser. *)
RefDateMode(parseMode) ==
  IF parseMode \in {"kIso8601", "kSparkCast"} THEN "kSparkCast"
  ELSE "kNonStrict"

(* The composer comes to parse a date: an ISO 8601 text neither starts     *)
(* with whitespace nor with the 'T' of a time without a date.              *)
RefComposerParsesDate(a) ==
  a.parseMode = "kIso8601"
    => (a.len = 0 \/ (~characterIsSpace(a.str[1]) /\ a.str[1] # Ord("T")))

RefDate(a) == tryParseDateString(a.str, a.len, RefDateMode(a.parseMode))

RefIsTimeSeparator(c, parseMode) ==
  \/ c = Ord("T") /\ parseMode \in {"kIso8601", "kLegacyCast", "kSparkCast"}
  \/ c = Ord(" ") /\ parseMode \in {"kPrestoCast", "kLegacyCast", "kSparkCast"}

(* Where the time starts, the date having stopped at pos < len. *)
RefTimeStart(a, pos) ==
  IF RefIsTimeSeparator(a.str[pos + 1], a.parseMode) THEN pos + 1 ELSE pos

(* The date parsed at date, text follows it, and no valid time does. *)
RefDateWithoutTime(a, date) ==
  /\ RefComposerParsesDate(a)
  /\ ~IsThrown(date) /\ date.ok
  /\ date.pos < a.len
  /\ ~tryParseTimeString(Drop(a.str, RefTimeStart(a, date.pos)), a.len - RefTimeStart(a, date.pos), a.parseMode).ok

(* C13: when the date parses and the text behind it is not a valid time,   *)
(* tryParseTimestampString succeeds with that date at midnight             *)
(* and reports the position where the date parser stopped, in every        *)
(* dialect, a separator behind the date or not.                            *)
C13_PositionBehindDate ==
  (fn = "tryParseTimestampString" /\ ret.pc # "call"
     /\ RefDateWithoutTime(args, RefDate(args)))
  => /\ ret.pc = "done" /\ ret.out.ok
     /\ ret.out.result = fromDatetime(RefDate(args).daysSinceEpoch, I64(0))
     /\ ret.out.pos = RefDate(args).pos

(* A field of one or two digits starting at pos: its length. *)
RefFieldDigits(str, pos) ==
  IF RefCountDigits(str, pos) > 2 THEN 2 ELSE RefCountDigits(str, pos)

RefFieldValue(str, pos) ==
  RefDigitsValue(SubSeq(str, 1, pos + RefFieldDigits(str, pos)), pos, 0)

RefIsChar(str, pos, ch) == pos < Len(str) /\ str[pos + 1] = Ord(ch)

(* Where the hours, minutes and seconds of hh:mm:ss start and end. *)
RefHourStart(a) ==
  IF a.parseMode = "kIso8601" THEN 0 ELSE RefLeadingSpaces(a.str)

RefHourEnd(a) == RefHourStart(a) + RefFieldDigits(a.str, RefHourStart(a))

RefMinuteEnd(a) ==
  RefHourEnd(a) + 1 + RefFieldDigits(a.str, RefHourEnd(a) + 1)

RefSecondEnd(a) ==
  RefMinuteEnd(a) + 1 + RefFieldDigits(a.str, RefMinuteEnd(a) + 1)

(* The text starts with hours, minutes and seconds. *)
RefHasSeconds(a) ==
  /\ RefFieldDigits(a.str, RefHourStart(a)) >= 1
  /\ RefIsChar(a.str, RefHourEnd(a), ":")
  /\ RefFieldDigits(a.str, RefHourEnd(a) + 1) >= 1
  /\ RefIsChar(a.str, RefMinuteEnd(a), ":")
  /\ RefFieldDigits(a.str, RefMinuteEnd(a) + 1) >= 1

RefHour(a) == RefFieldValue(a.str, RefHourStart(a))

RefMinute(a) == RefFieldValue(a.str, RefHourEnd(a) + 1)

RefSecond(a) == RefFieldValue(a.str, RefMinuteEnd(a) + 1)

RefTimeInRange(a) ==
  RefHour(a) \in 0..23 /\ RefMinute(a) \in 0..59 /\ RefSecond(a) \in 0..60

(* A fraction is introduced behind the seconds and has a digit. *)
RefHasFraction(a) ==
  /\ \/ RefIsChar(a.str, RefSecondEnd(a), ".")
     \/ a.parseMode = "kIso8601" /\ RefIsChar(a.str, RefSecondEnd(a), ",")
  /\ RefCountDigits(a.str, RefSecondEnd(a) + 1) >= 1

RefPowerOfTen(n) == IF n = 0 THEN 1 ELSE IF n = 1 THEN 10 ELSE IF n = 2 THEN 100 ELSE IF n = 3 THEN 1000 ELSE IF n = 4 THEN 10000 ELSE 100000

(* The first six digits from pos on, left-aligned; i is the digit's place. *)
RECURSIVE RefMicros(_, _, _)
RefMicros(str, pos, i) ==
  IF pos < Len(str) /\ characterIsDigit(str[pos + 1])
  THEN (IF i <= 6 THEN (str[pos + 1] - Ord("0")) * RefPowerOfTen(6 - i) ELSE 0)
       + RefMicros(str, pos + 1, i + 1)
  ELSE 0

(* ((hour*60 + minute)*60 + second) * 10^6 + microseconds *)
RefTimeOfDay(a, microseconds) ==
  I64Add(I64Mul(I64((RefHour(a) * 60 + RefMinute(a)) * 60 + RefSecond(a)),
                I64(1000000)),
         I64(microseconds))

(* C14: a text hh:mm:ss that tryParseTimeString accepts has its fields in  *)
(* range; digits directly behind the seconds, without '.' (or ',' in the   *)
(* ISO 8601 dialect), are not turned into microseconds; a fraction behind  *)
(* '.' (or ISO ',') gives its first six digits as left-aligned             *)
(* microseconds, the further digits being consumed and ignored, and the    *)
(* result is ((hour*60 + minute)*60 + second) * 10^6 + microseconds.       *)
C14_FractionNeedsIntroducer ==
  (fn = "tryParseTimeString" /\ ret.pc = "done" /\ RefHasSeconds(args))
  => /\ ret.out.ok => RefTimeInRange(args)
     /\ (ret.out.ok /\ ~RefHasFraction(args))
          => ret.out.result = RefTimeOfDay(args, 0)
     /\ (RefTimeInRange(args) /\ RefHasFraction(args))
          => /\ ret.out.ok
             /\ ret.out.pos = RefSecondEnd(args) + 1
                                + RefCountDigits(args.str, RefSecondEnd(args) + 1)
             /\ ret.out.result =
                  RefTimeOfDay(args, RefMicros(args.str, RefSecondEnd(args) + 1, 1))


(* The offset text [+-]hh[:]mm[:]ss[.|,]MMM read field by field: where     *)
(* each field starts and ends.                                             *)
RefSkipChar(str, pos, chars) ==
  IF pos < Len(str) /\ str[pos + 1] \in chars THEN pos + 1 ELSE pos

RefOffsetHourEnd(str) == 1 + RefFieldDigits(str, 1)

RefOffsetMinuteStart(str) == RefSkipChar(str, RefOffsetHourEnd(str), {Ord(":")})

RefOffsetMinuteEnd(str) ==
  RefOffsetMinuteStart(str) + RefFieldDigits(str, RefOffsetMinuteStart(str))

RefOffsetSecondStart(str) ==
  RefSkipChar(str, RefOffsetMinuteEnd(str), {Ord(":")})

RefOffsetSecondEnd(str) ==
  RefOffsetSecondStart(str) + RefFieldDigits(str, RefOffsetSecondStart(str))

RefOffsetMillisStart(str) ==
  RefSkipChar(str, RefOffsetSecondEnd(str), {Ord("."), Ord(",")})

RefOffsetMillisDigits(str) == RefCountDigits(str, RefOffsetMillisStart(str))

(* The text is a sign and 1 to 4 fields and nothing else. *)
RefOffsetWellFormed(str) ==
  /\ Len(str) >= 2 /\ RefIsSign(str[1])
  /\ RefFieldDigits(str, 1) >= 1
  /\ \/ RefOffsetHourEnd(str) = Len(str)
     \/ /\ RefFieldDigits(str, RefOffsetMinuteStart(str)) >= 1
        /\ \/ RefOffsetMinuteEnd(str) = Len(str)
           \/ /\ RefFieldDigits(str, RefOffsetSecondStart(str)) >= 1
              /\ \/ RefOffsetSecondEnd(str) = Len(str)
                 \/ /\ RefOffsetMillisDigits(str) \in 1..3
                    /\ RefOffsetMillisStart(str) + RefOffsetMillisDigits(str)
                         = Len(str)

RefOffsetHour(str) == RefFieldValue(str, 1)

RefOffsetMinute(str) == RefFieldValue(str, RefOffsetMinuteStart(str))

RefOffsetSecond(str) == RefFieldValue(str, RefOffsetSecondStart(str))

RefOffsetMillis(str) == RefMicros(str, RefOffsetMillisStart(str), 1) \div 1000

RefOffsetInRange(str) ==
  /\ RefOffsetHour(str) \in 0..23
  /\ RefOffsetMinute(str) \in 0..59
  /\ RefOffsetSecond(str) \in 0..59

RefOffsetMagnitude(str) ==
  RefOffsetHour(str) * 3600000 + RefOffsetMinute(str) * 60000
    + RefOffsetSecond(str) * 1000 + RefOffsetMillis(str)

(* The text with its leading '+' and '-' exchanged. *)
RefOppositeSign(str) ==
  [i \in 1..Len(str) |->
     IF i = 1 /\ str[1] = Ord("+") THEN Ord("-")
     ELSE IF i = 1 /\ str[1] = Ord("-") THEN Ord("+")
     ELSE str[i]]

(* C15: tryParsePrestoTimeOffsetString succeeds only with its position at  *)
(* the end of the span, and exactly on the texts [+-]hh[:]mm[:]ss[.|,]MMM   *)
(* with hour in [0,23], minute and second in [0,59] and at most 3 fraction  *)
(* digits; the result is sign * (hour*3600000 + minute*60000 + second*1000  *)
(* + millis).  The text with the opposite sign succeeds or fails with it    *)
(* and gives the negated result; "+05:30" and "+0530" give 19800000.        *)
C15_OffsetConsumesSpan ==
  (fn = "tryParsePrestoTimeOffsetString" /\ ret.pc # "call")
  => /\ ret.pc = "done"
     /\ ret.out.ok => ret.out.pos = args.len
     /\ ret.out.ok <=> (RefOffsetWellFormed(args.str) /\ RefOffsetInRange(args.str))
     /\ ret.out.ok
          => ret.out.result =
               (IF args.str[1] = Ord("+") THEN 1 ELSE -1)
                 * RefOffsetMagnitude(args.str)
     /\ (args.len >= 1 /\ RefIsSign(args.str[1]))
          => /\ tryParsePrestoTimeOffsetString(RefOppositeSign(args.str), args.len).ok
                  = ret.out.ok
             /\ ret.out.ok
                  => tryParsePrestoTimeOffsetString(RefOppositeSign(args.str), args.len).result
                       = -ret.out.result
     /\ args.str \in {Bytes(<<"+", "0", "5", ":", "3", "0">>),
                      Bytes(<<"+", "0", "5", "3", "0">>)}
          => ret.out.ok /\ ret.out.result = 19800000

(* "+0530" parsed without separators to 19800000. *)
C15_Witness ==
  /\ fn = "tryParsePrestoTimeOffsetString" /\ ret.pc = "done"
  /\ args.str = Bytes(<<"+", "0", "5", "3", "0">>)
  /\ ret.out.ok
  /\ ret.out.pos = 5
  /\ ret.out.result = 19800000


(* C16: in non-lenient mode every day count that                           *)
(* daysSinceEpochFromWeekOfMonthDate returns lies in the given month of    *)
(* the given year: not before the 1st and not after the last day, for      *)
(* every dayOfWeek in 1..7.                                                *)
C16_DayWithinMonth ==
  (fn = "daysSinceEpochFromWeekOfMonthDate" /\ ret.pc = "done"
     /\ ~args.lenient /\ ~ret.out.hasError /\ args.dayOfWeek \in 1..7)
  => /\ args.month \in 1..12
     /\ I64LessEq(RefDaysFromCivil(args.year, args.month, 1), ret.out.value)
     /\ I64LessEq(ret.out.value,
                  RefDaysFromCivil(args.year, args.month,
                                   RefMonthLength(args.year, args.month)))


(* A full date [spaces][sign]year, separator, month, the same separator,   *)
(* day: where its fields start and end.                                    *)
RefDateMonthEnd(str) ==
  RefYearEnd(str) + 1 + RefFieldDigits(str, RefYearEnd(str) + 1)

RefDateDayEnd(str) ==
  RefDateMonthEnd(str) + 1 + RefFieldDigits(str, RefDateMonthEnd(str) + 1)

RefFullDate(str) ==
  /\ RefYearDigits(str) >= 1
  /\ RefYearEnd(str) < Len(str)
  /\ str[RefYearEnd(str) + 1] \in {Ord(" "), Ord("-"), Ord("/"), Ord("\\")}
  /\ RefFieldDigits(str, RefYearEnd(str) + 1) >= 1
  /\ RefDateMonthEnd(str) < Len(str)
  /\ str[RefDateMonthEnd(str) + 1] = str[RefYearEnd(str) + 1]
  /\ RefFieldDigits(str, RefDateMonthEnd(str) + 1) >= 1

RefDateMonth(str) == RefFieldValue(str, RefYearEnd(str) + 1)

RefDateDay(str) == RefFieldValue(str, RefDateMonthEnd(str) + 1)

(* "(BC)" stands at pos. *)
RefBCAt(str, pos) ==
  /\ Len(str) - pos >= 4
  /\ str[pos + 1] = Ord("(") /\ str[pos + 2] = Ord("B")
  /\ str[pos + 3] = Ord("C") /\ str[pos + 4] = Ord(")")

(* The marker: one space and "(BC)" right behind the day. *)
RefBCMarker(str) ==
  /\ RefFullDate(str)
  /\ RefDateDayEnd(str) < Len(str)
  /\ str[RefDateDayEnd(str) + 1] = Ord(" ")
  /\ RefBCAt(str, RefDateDayEnd(str) + 1)

(* "(BC)" behind the day and behind one character that is not a space. *)
RefBCBehindOtherCharacter(str) ==
  /\ RefFullDate(str)
  /\ RefDateDayEnd(str) < Len(str)
  /\ str[RefDateDayEnd(str) + 1] # Ord(" ")
  /\ RefBCAt(str, RefDateDayEnd(str) + 1)

RefWrittenNegative(str) ==
  RefSignLength(str) = 1 /\ str[RefLeadingSpaces(str) + 1] = Ord("-")

RefBCDialect(mode) == mode \in {"kStrict", "kNonStrict"}

(* The day count of the date as written, the marker not being recognized. *)
RefDateAsWritten(str) ==
  RefDaysFromCivil(RefYear(str), RefDateMonth(str), RefDateDay(str))

(* C17: in the strict and non-strict dialects a full date followed by one  *)
(* space and "(BC)" is accepted only when its year y is at least 1 and not *)
(* written with '-'; the year becomes 1 - y, is checked against kMinYear,  *)
(* and the day count is that of (1 - y, month, day), a valid date by the   *)
(* leap rule of year 1 - y.  With y = 0 or a '-' sign the parse fails.  No *)
(* other character before "(BC)" makes a marker, and no other dialect      *)
(* recognizes it: a date accepted there has the day count of the date as   *)
(* written.                                                                *)
C17_BCMarker ==
  (fn = "tryParseDateString" /\ ret.pc = "done")
  => /\ (RefBCDialect(args.mode) /\ RefBCMarker(args.str) /\ ret.out.ok)
          => /\ RefYear(args.str) >= 1
             /\ ~RefWrittenNegative(args.str)
             /\ 1 - RefYear(args.str) >= kMinYear
             /\ RefValidDate(1 - RefYear(args.str), RefDateMonth(args.str),
                             RefDateDay(args.str))
             /\ ret.out.daysSinceEpoch =
                  RefDaysFromCivil(1 - RefYear(args.str),
                                   RefDateMonth(args.str),
                                   RefDateDay(args.str))
     /\ (RefBCDialect(args.mode) /\ RefBCMarker(args.str)
           /\ (RefYear(args.str) = 0 \/ RefWrittenNegative(args.str)))
          => ~ret.out.ok
     /\ (RefBCDialect(args.mode) /\ RefBCBehindOtherCharacter(args.str)
           /\ ret.out.ok)
          => ret.out.daysSinceEpoch = RefDateAsWritten(args.str)
     /\ (~RefBCDialect(args.mode) /\ RefBCMarker(args.str) /\ ret.out.ok)
          => ret.out.daysSinceEpoch = RefDateAsWritten(args.str)

=============================================================================
